---- MODULE Spec2Model ----
(***************************************************************************)
(* Model of the LINE photo bot's in-memory coordination layer (main.go):   *)
(* the MessageCache (idempotency cache with sweep-on-write expiry), the    *)
(* GroupCache (per-scope upload statistics) and the webhook dispatcher     *)
(* (callbackHandler / handleFileMessage / handleFile) that uses them from  *)
(* one goroutine per webhook request.                                      *)
(*                                                                         *)
(* Time is counted in whole hours.  Every cache method runs under the      *)
(* cache's mutex, so each method call is one atomic action; the calls to   *)
(* the LINE content API and to Google Drive happen outside any lock and    *)
(* are steps of their own whose outcome the environment chooses.           *)
(***************************************************************************)
EXTENDS Integers, Sequences, FiniteSets, TLC

VARIABLES
    now,          \* the wall clock (time.Now()), in hours since process start
    processed,    \* MessageCache.processed : messageID -> time.Time
    stats,        \* GroupCache.stats : groupID -> GroupStats
    pc,           \* per goroutine: where it stands in callbackHandler's loop
    batch,        \* per goroutine: the events of cb.Events not yet dispatched
    ev,           \* per goroutine: the event being dispatched
    folderID,     \* per goroutine: the Drive folder chosen for that event
    folderErr,    \* per goroutine: whether Drive refused to create the group's folder
    dup,          \* per goroutine: what IsProcessed answered for that event
    ret,          \* per goroutine: what the last handleFileMessage returned
    lastOp,       \* the last direct call on the MessageCache and what it returned
    everMarked,   \* history: identifiers MarkProcessed was ever called for
    accepted,     \* history: events accepted in batches so far
    folderCalls,  \* history: per group, folder-creation requests sent to Drive
    fetchCalls,   \* history: per identifier, GetMessageContent invocations
    uploadCalls,  \* history: per identifier, Drive upload invocations
    okUploads,    \* history: per identifier, Drive uploads that succeeded
    failures,     \* history: per identifier, handleFileMessage error returns
    skips,        \* history: per identifier, deliveries skipped as duplicate
    recorded,     \* history: per identifier, AddUploadedFile calls it caused
    uploadedTo,   \* history: per identifier, the Drive folders uploads of it went to
    adds,         \* history: per scope, the FileInfos of completed AddUploadedFile calls
    incs,         \* history: per scope, completed IncrementUploads calls
    statsRet,     \* what the last direct read of the GroupCache returned
    mpc,          \* per cache client: where it stands in IsProcessed / MarkProcessed
    mArg,         \* per cache client: the messageID of its call
    mRet,         \* per cache client: what its last IsProcessed returned
    mmuW,         \* MessageCache.mu: the client holding the write lock, or 0
    mmuR,         \* MessageCache.mu: the clients holding a read lock
    markTime,     \* history: per identifier, the time of its last insert
    gpc,          \* per store client: where it stands in its GroupCache method
    gArg,         \* per store client: the groupID and fileName of its call
    gTmp,         \* per store client: the value it read and has not written back
    gCalls,       \* per store client: AddUploadedFile calls it has made
    gRead,        \* per store client: per scope, the fields its read has fetched
    gTodo,        \* per store client: the scopes GetGlobalStats has yet to visit
    cmuW,         \* GroupCache.mu: the client holding the write lock, or 0
    cmuR,         \* GroupCache.mu: the clients holding a read lock
    smuW,         \* GroupStats.mu per scope: the client holding the write lock, or 0
    smuR,         \* GroupStats.mu per scope: the clients holding a read lock
    cmd           \* the last text handled and the replies sent for it

vars == <<now, processed, stats, pc, batch, ev, folderID, folderErr, dup, ret, lastOp,
          everMarked, accepted, folderCalls, fetchCalls, uploadCalls, okUploads,
          failures, skips, recorded, uploadedTo, adds, incs, statsRet, mpc,
          mArg, mRet, mmuW, mmuR, markTime, gpc, gArg, gTmp, gCalls, gRead,
          gTodo, cmuW, cmuR, smuW, smuR, cmd>>

cacheVars == <<now, processed, lastOp, everMarked>>
workerVars == <<pc, batch, ev, folderID, folderErr, dup, ret>>
historyVars == <<accepted, folderCalls, fetchCalls, uploadCalls, okUploads,
                 failures, skips, recorded, uploadedTo>>
statsHistVars == <<adds, incs, statsRet>>
mcLockVars == <<mpc, mArg, mRet, mmuW, mmuR, markTime>>
gcLockVars == <<gpc, gArg, gTmp, gCalls, gRead, gTodo, cmuW, cmuR, smuW, smuR>>
textVars == <<cmd>>
auxVars == <<statsHistVars, mcLockVars, gcLockVars, textVars>>

-----------------------------------------------------------------------------
(* Bounds of the model *)

MaxTime == 26          \* the clock stops advancing at this hour
MaxBatch == 2          \* events per webhook request
MaxDeliveries == 2     \* file events accepted over the whole run
MaxPerClient == 2      \* AddUploadedFile calls of one goroutine on the store
MaxCalls == 7          \* mutating calls made on the store directly
MaxTracked == 2        \* uploads completed between the texts
MaxRedeliveries == 3   \* single-event requests over the run that outlasts the retention

-----------------------------------------------------------------------------
(* Program constants *)

Retention == 24        \* 24*time.Hour, the sweep threshold of MarkProcessed
RecentCap == 5         \* "Keep only last 5 files"

DirectScope == "direct"

\* config.GoogleDriveFolderID
RootFolder == "root"

-----------------------------------------------------------------------------
(* Inputs *)

\* The goroutines that may be serving webhook requests at the same time
Workers == {1, 2}

MsgIds == {"m1", "m2", "m3", "m4", "m5"}

\* The webhook events of the model.  An identifier names one upstream
\* message, so every delivery of it carries the same content and source.
Events ==
    { [id |-> "m1", kind |-> "image", source |-> "group", groupId |-> "g1", fileName |-> ""],
      [id |-> "m2", kind |-> "file",  source |-> "user",  groupId |-> "",   fileName |-> "report.pdf"],
      [id |-> "m3", kind |-> "video", source |-> "group", groupId |-> "g2", fileName |-> ""],
      [id |-> "m4", kind |-> "audio", source |-> "room",  groupId |-> "",   fileName |-> ""],
      [id |-> "m5", kind |-> "location", source |-> "user", groupId |-> "", fileName |-> ""] }

GroupIds == {"g1", "g2"}

\* The identifiers the cache is driven with when it is exercised on its own
CacheIds == {"m1", "m2", "m3"}

NoOp == [op |-> "none", id |-> "", at |-> 0, result |-> FALSE]

NoEvent == [id |-> "", kind |-> "none", source |-> "none", groupId |-> "", fileName |-> ""]

FileKinds == {"image", "video", "audio", "file"}

EventOf(m) == CHOOSE e \in Events : e.id = m

\* Batches of 1..MaxBatch events
Batches == UNION { [1..n -> Events] : n \in 1..MaxBatch }

\* The steps by which the clock may advance between two program steps:
\* half-day steps when the cache is driven on its own, more than a day
\* between two steps of the dispatcher
\* scopes and file names the GroupCache is driven with directly
StatScopes == {"g1", DirectScope}
\* the name of the k-th file the store is given
FileNameOf(k) == "test" \o ToString(k) \o ".jpg"
\* goroutines calling the MessageCache, and goroutines calling the GroupCache
Clients == {1, 2, 3}
StoreClients == {1, 2}
\* no read of the GroupCache yet; no call in progress
NoRet == [op |-> "none"]
NoCall == [groupID |-> "", fileName |-> ""]
\* no text handled yet
NoCmd == [via |-> "none", bot |-> FALSE, text |-> <<>>, groupID |-> "",
          replyToken |-> "", replies |-> <<>>]
\* texts, one character per element
HelpText == <<"/", "h", "e", "l", "p">>
StatsText == <<"/", "s", "t", "a", "t", "s">>
UploadText == <<"/", "u", "p", "l", "o", "a", "d">>
Texts == {HelpText, StatsText, UploadText, <<"/", "x">>, <<"/">>, <<"h", "i">>,
          << >>, <<" ", "/", "h", "e", "l", "p">>, <<"/", "h", "e", "l", "p", " ">>,
          <<"/", "S", "T", "A", "T", "S">>, <<"s", "t", "a", "t", "s">>}
\* reply tokens, the empty one included; the group a command is given for
ReplyTokens == {"", "test-reply-token"}
CommandGroups == {"", "g1", "g2", DirectScope}
\* the sources of a text event
TextSources == {[source |-> "user", groupId |-> ""], [source |-> "group", groupId |-> "g1"],
                [source |-> "group", groupId |-> "g2"], [source |-> "room", groupId |-> ""]}

TickSteps == {12, 13}
LongSteps == {25}
\* hours between two calls made on the store directly
StatSteps == {1}

-----------------------------------------------------------------------------
(* MessageCache *)

\* time.Since(t) at clock reading t0
Since(t0, t) == t0 - t

\* Mutant of IsProcessed: the lookup also checks the entry's age
IsProcessedWithinWindow(p, messageID) ==
    messageID \in DOMAIN p /\ Since(now, p[messageID]) <= Retention

\* Mutant of IsProcessed: the lookup misses every key
IsProcessedNever(p, messageID) == FALSE

\* main.go:35-40
IsProcessed(p, messageID) == messageID \in DOMAIN p

\* Mutant of Expired: the comparison is turned around
ExpiredInverted(p, t0) == { id \in DOMAIN p : Since(t0, p[id]) < Retention }

\* Mutant of Expired: the sweep deletes nothing
ExpiredNever(p, t0) == {}

\* Mutant of Expired: ">=" for ">"
ExpiredAtThreshold(p, t0) == { id \in DOMAIN p : Since(t0, p[id]) >= Retention }

\* main.go:48-52: the entries the sweep deletes
Expired(p, t0) == { id \in DOMAIN p : Since(t0, p[id]) > Retention }

\* main.go:42-53: insert, then sweep, both under c.mu.Lock()
MarkProcessedMap(p, messageID, t0) ==
    LET ins == [id \in DOMAIN p \cup {messageID} |->
                   IF id = messageID THEN t0 ELSE p[id]]
    IN  [id \in DOMAIN ins \ Expired(ins, t0) |-> ins[id]]

-----------------------------------------------------------------------------
(* GroupCache *)

\* &GroupStats{} : the zero value
ZeroStats == [TotalUploads |-> 0, LastUpload |-> 0 - 1, RecentFiles |-> <<>>]

\* a list that is never cut
TruncateNever(files) == files

\* a list cut at the front, so that the oldest entries stay
TruncateOldest(files) ==
    IF Len(files) > RecentCap
    THEN SubSeq(files, Len(files) - RecentCap + 1, Len(files))
    ELSE files

\* stats.RecentFiles[:5]
Truncate(files) ==
    IF Len(files) > RecentCap THEN SubSeq(files, 1, RecentCap) ELSE files

\* Mutant of AddUploadedFileMap: the upload is counted twice
AddUploadedFileTwice(st, groupID, fileName, t0) ==
    LET old == IF groupID \in DOMAIN st THEN st[groupID] ELSE ZeroStats
        new == [TotalUploads |-> old.TotalUploads + 2,
                LastUpload   |-> t0,
                RecentFiles  |-> Truncate(<<[Name |-> fileName, Timestamp |-> t0]>>
                                          \o old.RecentFiles)]
    IN  [g \in DOMAIN st \cup {groupID} |-> IF g = groupID THEN new ELSE st[g]]

\* Mutant of AddUploadedFileMap: the new file goes to the end of the list
AddUploadedFileAtEnd(st, groupID, fileName, t0) ==
    LET old == IF groupID \in DOMAIN st THEN st[groupID] ELSE ZeroStats
        new == [TotalUploads |-> old.TotalUploads + 1,
                LastUpload   |-> t0,
                RecentFiles  |-> Truncate(old.RecentFiles
                                          \o <<[Name |-> fileName, Timestamp |-> t0]>>)]
    IN  [g \in DOMAIN st \cup {groupID} |-> IF g = groupID THEN new ELSE st[g]]

\* Mutant of AddUploadedFileMap: the scope's record is made anew on every call
AddUploadedFileAnew(st, groupID, fileName, t0) ==
    LET new == [TotalUploads |-> 1,
                LastUpload   |-> t0,
                RecentFiles  |-> <<[Name |-> fileName, Timestamp |-> t0]>>]
    IN  [g \in DOMAIN st \cup {groupID} |-> IF g = groupID THEN new ELSE st[g]]

\* main.go:167-193
AddUploadedFileMap(st, groupID, fileName, t0) ==
    LET old == IF groupID \in DOMAIN st THEN st[groupID] ELSE ZeroStats
        new == [TotalUploads |-> old.TotalUploads + 1,
                LastUpload   |-> t0,
                RecentFiles  |-> Truncate(<<[Name |-> fileName, Timestamp |-> t0]>>
                                          \o old.RecentFiles)]
    IN  [g \in DOMAIN st \cup {groupID} |-> IF g = groupID THEN new ELSE st[g]]

\* main.go:195-205
GetStats(st, groupID) ==
    IF groupID \in DOMAIN st
    THEN <<st[groupID].TotalUploads, st[groupID].LastUpload, st[groupID].RecentFiles>>
    ELSE <<0, 0 - 1, <<>>>>

\* an IncrementUploads that starts the scope's record afresh
IncrementUploadsFresh(st, groupID, t0) ==
    LET old == IF groupID \in DOMAIN st THEN st[groupID] ELSE ZeroStats
        new == [TotalUploads |-> old.TotalUploads + 1,
                LastUpload   |-> t0,
                RecentFiles  |-> <<>>]
    IN  [g \in DOMAIN st \cup {groupID} |-> IF g = groupID THEN new ELSE st[g]]

\* main.go:151-165: counts an upload without a file name
IncrementUploadsMap(st, groupID, t0) ==
    LET old == IF groupID \in DOMAIN st THEN st[groupID] ELSE ZeroStats
        new == [TotalUploads |-> old.TotalUploads + 1,
                LastUpload   |-> t0,
                RecentFiles  |-> old.RecentFiles]
    IN  [g \in DOMAIN st \cup {groupID} |-> IF g = groupID THEN new ELSE st[g]]

\* a.After(b)
After(a, b) == a > b

\* the loop of GetGlobalStats with the comparison of LastUpload turned round
RECURSIVE CollectEarliest(_, _)
CollectEarliest(st, S) ==
    IF S = {} THEN <<0, 0 - 1, <<>>>>
    ELSE LET g == CHOOSE x \in S : TRUE
             r == CollectEarliest(st, S \ {g})
         IN  <<r[1] + st[g].TotalUploads,
               IF After(r[2], st[g].LastUpload) THEN st[g].LastUpload ELSE r[2],
               r[3] \o st[g].RecentFiles>>

\* main.go:213-226: the loop over c.stats, which sums the counters, keeps the
\* latest LastUpload and appends every scope's RecentFiles
RECURSIVE Collect(_, _)
Collect(st, S) ==
    IF S = {} THEN <<0, 0 - 1, <<>>>>
    ELSE LET g == CHOOSE x \in S : TRUE
             r == Collect(st, S \ {g})
         IN  <<r[1] + st[g].TotalUploads,
               IF After(st[g].LastUpload, r[2]) THEN st[g].LastUpload ELSE r[2],
               r[3] \o st[g].RecentFiles>>

\* files without its i-th element
RemoveAt(files, i) ==
    [k \in 1 .. Len(files) - 1 |-> IF k < i THEN files[k] ELSE files[k + 1]]

\* an ordering that puts the oldest files first
RECURSIVE SortOldestFirst(_)
SortOldestFirst(files) ==
    IF files = <<>> THEN {<<>>}
    ELSE LET first == {i \in 1 .. Len(files) :
                          /\ \A j \in 1 .. Len(files) :
                                ~ After(files[i].Timestamp, files[j].Timestamp)
                          /\ \A j \in 1 .. i - 1 : files[j] # files[i]}
         IN  UNION {{<<files[i]>> \o r : r \in SortOldestFirst(RemoveAt(files, i))}
                      : i \in first}

\* main.go:229-231: sort.Slice with Timestamp.After as less. The sort is not
\* stable and the map is ranged over in no fixed order, so files of equal
\* Timestamp come out in any order: the set of the possible results
RECURSIVE SortNewestFirst(_)
SortNewestFirst(files) ==
    IF files = <<>> THEN {<<>>}
    ELSE LET first == {i \in 1 .. Len(files) :
                          /\ \A j \in 1 .. Len(files) :
                                ~ After(files[j].Timestamp, files[i].Timestamp)
                          /\ \A j \in 1 .. i - 1 : files[j] # files[i]}
         IN  UNION {{<<files[i]>> \o r : r \in SortNewestFirst(RemoveAt(files, i))}
                      : i \in first}

\* main.go:208-238: the results GetGlobalStats can return
GetGlobalStats(st) ==
    LET r == Collect(st, DOMAIN st)
    IN  {<<r[1], r[2], Truncate(fl)>> : fl \in SortNewestFirst(r[3])}

-----------------------------------------------------------------------------
(* Commands *)

\* Mutant of HasPrefix: every text counts as starting with the prefix
HasPrefixAlways(text, prefix) == TRUE

\* strings.HasPrefix
HasPrefix(text, prefix) ==
    /\ Len(text) >= Len(prefix)
    /\ SubSeq(text, 1, Len(prefix)) = prefix

\* main.go:377-396: the messages sent so far and the one ReplyMessage call,
\* which is not made without a bot or without a reply token
sendMessage(bot, replyToken, text, sent) ==
    IF ~ bot \/ replyToken = "" THEN sent ELSE Append(sent, text)

\* a reply: which text it is and, for the statistics, the title, the total,
\* the last upload and the list of recent files that are formatted into it
Message(kind, title, r) ==
    [kind |-> kind, title |-> title, uploads |-> r[1], last |-> r[2], files |-> r[3]]

PlainMessage(kind) == Message(kind, "", <<0, 0, << >> >>)

\* Mutant of handleCommand: /stats without a group reports the "direct" scope
handleCommandDirectWhenEmpty(bot, text, groupID, replyToken, st) ==
    CASE text = HelpText ->
           {sendMessage(bot, replyToken, PlainMessage("help"), << >>)}
      [] text = StatsText ->
           {sendMessage(bot, replyToken,
                        Message("stats",
                                IF groupID # "" THEN "Group Statistics"
                                                ELSE "Upload Statistics", r), << >>) :
               r \in {GetStats(st, IF groupID # "" THEN groupID ELSE DirectScope)}}
      [] text = UploadText ->
           {sendMessage(bot, replyToken, PlainMessage("upload"), << >>)}
      [] OTHER ->
           {IF HasPrefix(text, <<"/">>)
            THEN sendMessage(bot, replyToken, PlainMessage("unknown"), << >>)
            ELSE << >>}

\* main.go:56-125: the messages handleCommand sends; a set, as GetGlobalStats
\* may order files of one timestamp either way
handleCommand(bot, text, groupID, replyToken, st) ==
    CASE text = HelpText ->
           {sendMessage(bot, replyToken, PlainMessage("help"), << >>)}
      [] text = StatsText ->
           {sendMessage(bot, replyToken,
                        Message("stats",
                                IF groupID # "" THEN "Group Statistics"
                                                ELSE "Upload Statistics", r), << >>) :
               r \in IF groupID # "" THEN {GetStats(st, groupID)}
                                      ELSE GetGlobalStats(st)}
      [] text = UploadText ->
           {sendMessage(bot, replyToken, PlainMessage("upload"), << >>)}
      [] OTHER ->
           {IF HasPrefix(text, <<"/">>)
            THEN sendMessage(bot, replyToken, PlainMessage("unknown"), << >>)
            ELSE << >>}

-----------------------------------------------------------------------------
(* Dispatcher helpers *)

\* main.go:414-427
getFileExtension(e) ==
    CASE e.kind = "image" -> ".jpg"
      [] e.kind = "video" -> ".mp4"
      [] e.kind = "audio" -> ".m4a"
      [] e.kind = "file"  -> IF e.fileName = "report.pdf" THEN ".pdf" ELSE ""
      [] OTHER            -> ""

\* main.go:637-643
TrackingFileName(e) ==
    IF e.kind = "file" THEN e.fileName ELSE "file" \o getFileExtension(e)

\* main.go:603-613: only a group source sets groupID
GroupIDOf(e) == IF e.source = "group" THEN e.groupId ELSE ""

\* Mutant of TrackingGroupID: every upload is tracked under the reserved key
TrackingGroupIDAlwaysDirect(e) == DirectScope

\* main.go:652-656
TrackingGroupID(e) ==
    IF GroupIDOf(e) = "" THEN DirectScope ELSE GroupIDOf(e)

\* Mutant of getOrCreateGroupFolder: no folder comes back when Drive refuses
getOrCreateGroupFolderNoneOnError(groupID, parentFolderID, created) ==
    IF created THEN "LINE-Group-" \o groupID ELSE ""

\* main.go:398-412: Drive is asked to create "LINE-Group-<groupID>" under the
\* parent; created tells whether Drive did, and the new folder's id is
\* modelled by the folder's name
getOrCreateGroupFolder(groupID, parentFolderID, created) ==
    IF created THEN "LINE-Group-" \o groupID ELSE parentFolderID

ZeroCount == [m \in MsgIds |-> 0]

Bump(f, m) == [f EXCEPT ![m] = @ + 1]

RECURSIVE CountIn(_, _)
CountIn(b, m) ==
    IF b = <<>> THEN 0
    ELSE (IF Head(b).id = m THEN 1 ELSE 0) + CountIn(Tail(b), m)

RECURSIVE SumOver(_, _)
SumOver(f, S) ==
    IF S = {} THEN 0
    ELSE LET x == CHOOSE y \in S : TRUE IN f[x] + SumOver(f, S \ {x})

-----------------------------------------------------------------------------
(* Initial state: NewMessageCache(), NewGroupCache(), no request in flight *)

Init ==
    /\ now = 0
    /\ processed = << >>
    /\ stats = << >>
    /\ pc = [w \in Workers |-> "idle"]
    /\ batch = [w \in Workers |-> <<>>]
    /\ ev = [w \in Workers |-> NoEvent]
    /\ folderID = [w \in Workers |-> RootFolder]
    /\ folderErr = [w \in Workers |-> FALSE]
    /\ dup = [w \in Workers |-> FALSE]
    /\ ret = [w \in Workers |-> "none"]
    /\ lastOp = NoOp
    /\ everMarked = {}
    /\ accepted = 0
    /\ folderCalls = [g \in GroupIds |-> 0]
    /\ fetchCalls = ZeroCount
    /\ uploadCalls = ZeroCount
    /\ okUploads = ZeroCount
    /\ failures = ZeroCount
    /\ skips = ZeroCount
    /\ recorded = ZeroCount
    /\ uploadedTo = [m \in MsgIds |-> {}]
    /\ adds = [s \in StatScopes |-> <<>>]
    /\ incs = [s \in StatScopes |-> 0]
    /\ statsRet = NoRet
    /\ mpc = [c \in Clients |-> "idle"]
    /\ mArg = [c \in Clients |-> ""]
    /\ mRet = [c \in Clients |-> FALSE]
    /\ mmuW = 0
    /\ mmuR = {}
    /\ markTime = << >>
    /\ gpc = [c \in StoreClients |-> "idle"]
    /\ gArg = [c \in StoreClients |-> NoCall]
    /\ gTmp = [c \in StoreClients |-> 0]
    /\ gCalls = [c \in StoreClients |-> 0]
    /\ gRead = [c \in StoreClients |-> << >>]
    /\ gTodo = [c \in StoreClients |-> {}]
    /\ cmuW = 0
    /\ cmuR = {}
    /\ smuW = [s \in StatScopes |-> 0]
    /\ smuR = [s \in StatScopes |-> {}]
    /\ cmd = NoCmd

\* The clock advances
Tick(d) ==
    /\ now + d <= MaxTime
    /\ now' = now + d
    /\ UNCHANGED <<processed, stats, lastOp, everMarked, workerVars, historyVars>>
    /\ UNCHANGED auxVars

-----------------------------------------------------------------------------
(* The MessageCache driven directly through its two methods, as            *)
(* TestMessageCache drives it                                              *)

\* a lookup that also drops the entries older than the retention window
CallIsProcessedSweeping(messageID) ==
    /\ lastOp' = [op |-> "isProcessed", id |-> messageID, at |-> now,
                  result |-> IsProcessed(processed, messageID)]
    /\ processed' = [id \in DOMAIN processed \ Expired(processed, now)
                        |-> processed[id]]
    /\ UNCHANGED <<now, stats, everMarked, workerVars, historyVars>>
    /\ UNCHANGED auxVars

\* cache.IsProcessed(messageID)
CallIsProcessed(messageID) ==
    /\ lastOp' = [op |-> "isProcessed", id |-> messageID, at |-> now,
                  result |-> IsProcessed(processed, messageID)]
    /\ UNCHANGED <<now, processed, stats, everMarked, workerVars, historyVars>>
    /\ UNCHANGED auxVars

\* cache.MarkProcessed(messageID)
CallMarkProcessed(messageID) ==
    /\ processed' = MarkProcessedMap(processed, messageID, now)
    /\ everMarked' = everMarked \cup {messageID}
    /\ lastOp' = [op |-> "mark", id |-> messageID, at |-> now, result |-> FALSE]
    /\ UNCHANGED <<now, stats, workerVars, historyVars>>
    /\ UNCHANGED auxVars

CacheNext ==
    \/ \E m \in CacheIds : CallIsProcessed(m)
    \/ \E m \in CacheIds : CallMarkProcessed(m)
    \/ \E d \in TickSteps : Tick(d)

CacheSpec == Init /\ [][CacheNext]_vars

-----------------------------------------------------------------------------
(* The dispatcher: one goroutine per webhook request (callbackHandler)     *)

\* The outcomes of handleFile (main.go:494-554), in the order of its returns
HandleFileOutcomes == {"blob_err", "content_err", "tmp_err", "upload_err", "ok"}

\* main.go:580-599: the request is parsed, answered 200 and its events are
\* handed to a new goroutine.  Goroutines are anonymous: a new one takes the
\* first free slot of Workers.
Receive(w, b) ==
    /\ pc[w] = "idle"
    /\ \A v \in Workers : v < w => pc[v] # "idle"
    /\ accepted + Len(b) <= MaxDeliveries
    /\ pc' = [pc EXCEPT ![w] = "loop"]
    /\ batch' = [batch EXCEPT ![w] = b]
    /\ accepted' = accepted + Len(b)
    /\ UNCHANGED <<cacheVars, stats, ev, folderID, folderErr, dup, ret, folderCalls,
                   fetchCalls, uploadCalls, okUploads, failures, skips, recorded,
                   uploadedTo>>
    /\ UNCHANGED auxVars

\* main.go:600-643: the next event of the batch.  For a file event the Drive
\* folder is chosen (a group's folder is requested from Drive, created being
\* Drive's answer) and the event goes on to handleFileMessage; an event of
\* any other kind is passed over.
Dispatch(w, created) ==
    /\ pc[w] = "loop"
    /\ batch[w] # <<>>
    /\ LET e == Head(batch[w])
           g == GroupIDOf(e)
       IN  /\ ev' = [ev EXCEPT ![w] = e]
           /\ IF e.kind \in FileKinds
              THEN /\ pc' = [pc EXCEPT ![w] = "check"]
                   /\ IF g # ""
                      THEN /\ folderID' = [folderID EXCEPT ![w] =
                                  getOrCreateGroupFolder(g, RootFolder, created)]
                           /\ folderErr' = [folderErr EXCEPT ![w] = ~ created]
                           /\ folderCalls' = [folderCalls EXCEPT ![g] = @ + 1]
                      ELSE /\ created
                           /\ folderID' = [folderID EXCEPT ![w] = RootFolder]
                           /\ folderErr' = [folderErr EXCEPT ![w] = FALSE]
                           /\ UNCHANGED folderCalls
              ELSE /\ created
                   /\ pc' = [pc EXCEPT ![w] = "loop"]
                   /\ folderID' = [folderID EXCEPT ![w] = RootFolder]
                   /\ folderErr' = [folderErr EXCEPT ![w] = FALSE]
                   /\ UNCHANGED folderCalls
    /\ batch' = [batch EXCEPT ![w] = Tail(batch[w])]
    /\ dup' = [dup EXCEPT ![w] = FALSE]
    /\ ret' = [ret EXCEPT ![w] = "none"]
    /\ UNCHANGED <<cacheVars, stats, accepted, fetchCalls, uploadCalls,
                   okUploads, failures, skips, recorded, uploadedTo>>
    /\ UNCHANGED auxVars

\* Mutant of CheckProcessed: an identifier that was ever marked is a duplicate
CheckProcessedRemembering(w) ==
    /\ pc[w] = "check"
    /\ IF ev[w].kind \notin FileKinds
       THEN /\ ret' = [ret EXCEPT ![w] = "err"]
            /\ pc' = [pc EXCEPT ![w] = "loop"]
            /\ failures' = Bump(failures, ev[w].id)
            /\ UNCHANGED <<dup, skips>>
       ELSE IF ev[w].id \in everMarked
       THEN /\ dup' = [dup EXCEPT ![w] = TRUE]
            /\ ret' = [ret EXCEPT ![w] = "nil"]
            /\ pc' = [pc EXCEPT ![w] = "record"]
            /\ skips' = Bump(skips, ev[w].id)
            /\ UNCHANGED failures
       ELSE /\ pc' = [pc EXCEPT ![w] = "handle"]
            /\ UNCHANGED <<dup, ret, skips, failures>>
    /\ UNCHANGED <<cacheVars, stats, batch, ev, folderID, folderErr, accepted, folderCalls,
                   fetchCalls, uploadCalls, okUploads, recorded, uploadedTo>>
    /\ UNCHANGED auxVars

\* Mutant of CheckProcessed: the message kind is not looked at, a message of
\* any kind goes on to the idempotency check and to handleFile
CheckProcessedAnyKind(w) ==
    /\ pc[w] = "check"
    /\ IF IsProcessed(processed, ev[w].id)
       THEN /\ dup' = [dup EXCEPT ![w] = TRUE]
            /\ ret' = [ret EXCEPT ![w] = "nil"]
            /\ pc' = [pc EXCEPT ![w] = "record"]
            /\ skips' = Bump(skips, ev[w].id)
            /\ UNCHANGED failures
       ELSE /\ pc' = [pc EXCEPT ![w] = "handle"]
            /\ UNCHANGED <<dup, ret, skips, failures>>
    /\ UNCHANGED <<cacheVars, stats, batch, ev, folderID, folderErr, accepted, folderCalls,
                   fetchCalls, uploadCalls, okUploads, recorded, uploadedTo>>
    /\ UNCHANGED auxVars

\* main.go:432-452: handleFileMessage up to the idempotency check
CheckProcessed(w) ==
    /\ pc[w] = "check"
    /\ IF ev[w].kind \notin FileKinds
       THEN /\ ret' = [ret EXCEPT ![w] = "err"]
            /\ pc' = [pc EXCEPT ![w] = "loop"]
            /\ failures' = Bump(failures, ev[w].id)
            /\ UNCHANGED <<dup, skips>>
       ELSE IF IsProcessed(processed, ev[w].id)
       THEN /\ dup' = [dup EXCEPT ![w] = TRUE]
            /\ ret' = [ret EXCEPT ![w] = "nil"]
            /\ pc' = [pc EXCEPT ![w] = "record"]
            /\ skips' = Bump(skips, ev[w].id)
            /\ UNCHANGED failures
       ELSE /\ pc' = [pc EXCEPT ![w] = "handle"]
            /\ UNCHANGED <<dup, ret, skips, failures>>
    /\ UNCHANGED <<cacheVars, stats, batch, ev, folderID, folderErr, accepted, folderCalls,
                   fetchCalls, uploadCalls, okUploads, recorded, uploadedTo>>
    /\ UNCHANGED auxVars

\* main.go:532-536: the Parents of the drive.File handleFile uploads; the
\* folder chosen by callbackHandler reaches handleFileMessage and goes no further
UploadParent(chosen) == RootFolder

\* Mutant of HandleFile: the identifier is marked before the outcome is known
HandleFileMarkFirst(w, outcome) ==
    /\ pc[w] = "handle"
    /\ processed' = MarkProcessedMap(processed, ev[w].id, now)
    /\ everMarked' = everMarked \cup {ev[w].id}
    /\ fetchCalls' = IF outcome = "blob_err" THEN fetchCalls
                     ELSE Bump(fetchCalls, ev[w].id)
    /\ uploadCalls' = IF outcome \in {"upload_err", "ok"}
                      THEN Bump(uploadCalls, ev[w].id) ELSE uploadCalls
    /\ okUploads' = IF outcome = "ok" THEN Bump(okUploads, ev[w].id) ELSE okUploads
    /\ uploadedTo' = IF outcome \in {"upload_err", "ok"}
                     THEN [uploadedTo EXCEPT ![ev[w].id] = @ \cup {UploadParent(folderID[w])}]
                     ELSE uploadedTo
    /\ IF outcome = "ok"
       THEN /\ pc' = [pc EXCEPT ![w] = "mark"]
            /\ UNCHANGED <<ret, failures>>
       ELSE /\ ret' = [ret EXCEPT ![w] = "err"]
            /\ pc' = [pc EXCEPT ![w] = "loop"]
            /\ failures' = Bump(failures, ev[w].id)
    /\ UNCHANGED <<now, lastOp, stats, batch, ev, folderID, folderErr, dup, accepted,
                   folderCalls, skips, recorded>>
    /\ UNCHANGED auxVars

\* Mutant of HandleFile: an error of handleFile ends the loop over the events
HandleFileStopsBatch(w, outcome) ==
    /\ pc[w] = "handle"
    /\ fetchCalls' = IF outcome = "blob_err" THEN fetchCalls
                     ELSE Bump(fetchCalls, ev[w].id)
    /\ uploadCalls' = IF outcome \in {"upload_err", "ok"}
                      THEN Bump(uploadCalls, ev[w].id) ELSE uploadCalls
    /\ okUploads' = IF outcome = "ok" THEN Bump(okUploads, ev[w].id) ELSE okUploads
    /\ uploadedTo' = IF outcome \in {"upload_err", "ok"}
                     THEN [uploadedTo EXCEPT ![ev[w].id] = @ \cup {UploadParent(folderID[w])}]
                     ELSE uploadedTo
    /\ IF outcome = "ok"
       THEN /\ pc' = [pc EXCEPT ![w] = "mark"]
            /\ UNCHANGED <<ret, failures, batch>>
       ELSE /\ ret' = [ret EXCEPT ![w] = "err"]
            /\ pc' = [pc EXCEPT ![w] = "loop"]
            /\ failures' = Bump(failures, ev[w].id)
            /\ batch' = [batch EXCEPT ![w] = << >>]
    /\ UNCHANGED <<cacheVars, stats, ev, folderID, folderErr, dup, accepted,
                   folderCalls, skips, recorded>>
    /\ UNCHANGED auxVars

\* main.go:454-458 with handleFile (main.go:494-554): content fetch, temporary
\* file, upload to Drive; no cache is touched and no lock is held
HandleFile(w, outcome) ==
    /\ pc[w] = "handle"
    /\ fetchCalls' = IF outcome = "blob_err" THEN fetchCalls
                     ELSE Bump(fetchCalls, ev[w].id)
    /\ uploadCalls' = IF outcome \in {"upload_err", "ok"}
                      THEN Bump(uploadCalls, ev[w].id) ELSE uploadCalls
    /\ okUploads' = IF outcome = "ok" THEN Bump(okUploads, ev[w].id) ELSE okUploads
    /\ uploadedTo' = IF outcome \in {"upload_err", "ok"}
                     THEN [uploadedTo EXCEPT ![ev[w].id] = @ \cup {UploadParent(folderID[w])}]
                     ELSE uploadedTo
    /\ IF outcome = "ok"
       THEN /\ pc' = [pc EXCEPT ![w] = "mark"]
            /\ UNCHANGED <<ret, failures>>
       ELSE /\ ret' = [ret EXCEPT ![w] = "err"]
            /\ pc' = [pc EXCEPT ![w] = "loop"]
            /\ failures' = Bump(failures, ev[w].id)
    /\ UNCHANGED <<cacheVars, stats, batch, ev, folderID, folderErr, dup, accepted,
                   folderCalls, skips, recorded>>
    /\ UNCHANGED auxVars

\* Mutant of MarkDone: the upload is marked and never tracked
MarkDoneUntracked(w) ==
    /\ pc[w] = "mark"
    /\ processed' = MarkProcessedMap(processed, ev[w].id, now)
    /\ everMarked' = everMarked \cup {ev[w].id}
    /\ ret' = [ret EXCEPT ![w] = "nil"]
    /\ pc' = [pc EXCEPT ![w] = "loop"]
    /\ UNCHANGED <<now, lastOp, stats, batch, ev, folderID, folderErr, dup, historyVars>>
    /\ UNCHANGED auxVars

\* main.go:459-461: MarkProcessed after the successful upload, return nil
MarkDone(w) ==
    /\ pc[w] = "mark"
    /\ processed' = MarkProcessedMap(processed, ev[w].id, now)
    /\ everMarked' = everMarked \cup {ev[w].id}
    /\ ret' = [ret EXCEPT ![w] = "nil"]
    /\ pc' = [pc EXCEPT ![w] = "record"]
    /\ UNCHANGED <<now, lastOp, stats, batch, ev, folderID, folderErr, dup, historyVars>>
    /\ UNCHANGED auxVars

\* main.go:646-657: handleFileMessage returned nil, the upload is tracked
RecordUpload(w) ==
    /\ pc[w] = "record"
    /\ stats' = AddUploadedFileMap(stats, TrackingGroupID(ev[w]),
                                   TrackingFileName(ev[w]), now)
    /\ recorded' = Bump(recorded, ev[w].id)
    /\ pc' = [pc EXCEPT ![w] = "loop"]
    /\ UNCHANGED <<cacheVars, batch, ev, folderID, folderErr, dup, ret, accepted,
                   folderCalls, fetchCalls, uploadCalls, okUploads, failures,
                   skips, uploadedTo>>
    /\ UNCHANGED auxVars

\* main.go:600,661: the batch is exhausted and the goroutine ends
Finish(w) ==
    /\ pc[w] = "loop"
    /\ batch[w] = <<>>
    /\ pc' = [pc EXCEPT ![w] = "idle"]
    /\ ev' = [ev EXCEPT ![w] = NoEvent]
    /\ folderID' = [folderID EXCEPT ![w] = RootFolder]
    /\ folderErr' = [folderErr EXCEPT ![w] = FALSE]
    /\ dup' = [dup EXCEPT ![w] = FALSE]
    /\ ret' = [ret EXCEPT ![w] = "none"]
    /\ UNCHANGED <<cacheVars, stats, batch, historyVars>>
    /\ UNCHANGED auxVars

Next ==
    \/ \E w \in Workers, b \in Batches : Receive(w, b)
    \/ \E w \in Workers, created \in BOOLEAN : Dispatch(w, created)
    \/ \E w \in Workers : CheckProcessed(w)
    \/ \E w \in Workers, o \in HandleFileOutcomes : HandleFile(w, o)
    \/ \E w \in Workers : MarkDone(w)
    \/ \E w \in Workers : RecordUpload(w)
    \/ \E w \in Workers : Finish(w)
    \/ \E d \in LongSteps : Tick(d)

Spec == Init /\ [][Next]_vars

-----------------------------------------------------------------------------
(* handleFileMessage called with a message of another kind, as             *)
(* main_test.go:995-1039 does, next to the dispatcher                      *)

\* the events whose message is not an image, a video, an audio or a file
OtherEvents == {e \in Events : e.kind \notin FileKinds}

\* main_test.go:1030-1031: the caller passes the message and the root folder
\* to handleFileMessage; the error comes back to the caller, who ends
CallHandleFileMessage(w, e) ==
    /\ pc[w] = "idle"
    /\ accepted < MaxDeliveries
    /\ accepted' = accepted + 1
    /\ ev' = [ev EXCEPT ![w] = e]
    /\ folderID' = [folderID EXCEPT ![w] = RootFolder]
    /\ folderErr' = [folderErr EXCEPT ![w] = FALSE]
    /\ pc' = [pc EXCEPT ![w] = "check"]
    /\ UNCHANGED <<cacheVars, stats, batch, dup, ret, folderCalls, fetchCalls,
                   uploadCalls, okUploads, failures, skips, recorded, uploadedTo>>
    /\ UNCHANGED auxVars

HfmNext ==
    \/ \E w \in Workers, e \in OtherEvents : CallHandleFileMessage(w, e)
    \/ \E w \in Workers, b \in Batches : Receive(w, b)
    \/ \E w \in Workers, created \in BOOLEAN : Dispatch(w, created)
    \/ \E w \in Workers : CheckProcessed(w)
    \/ \E w \in Workers, o \in HandleFileOutcomes : HandleFile(w, o)
    \/ \E w \in Workers : MarkDone(w)
    \/ \E w \in Workers : RecordUpload(w)
    \/ \E w \in Workers : Finish(w)

HfmSpec == Init /\ [][HfmNext]_vars

-----------------------------------------------------------------------------
(* One webhook request: the goroutine of main.go:599-661 works through the *)
(* events of its batch alone                                               *)

BatchNext ==
    \/ \E b \in Batches : accepted = 0 /\ Receive(1, b)
    \/ \E w \in Workers, created \in BOOLEAN : Dispatch(w, created)
    \/ \E w \in Workers : CheckProcessed(w)
    \/ \E w \in Workers, o \in HandleFileOutcomes : HandleFile(w, o)
    \/ \E w \in Workers : MarkDone(w)
    \/ \E w \in Workers : RecordUpload(w)
    \/ \E w \in Workers : Finish(w)
    \/ \E d \in LongSteps : Tick(d)

BatchSpec == Init /\ [][BatchNext]_vars

\* the goroutine is scheduled: a step it can take is taken
FairBatchSpec ==
    /\ BatchSpec
    /\ \A w \in Workers : WF_vars(MarkDone(w)) /\ WF_vars(RecordUpload(w))

-----------------------------------------------------------------------------
(* Requests of one file event each, delivered over more than a day: the    *)
(* same message can come again after its entry has been swept              *)

\* the events that are delivered and delivered again
RedeliveredEvents == {e \in Events : e.id \in {"m1", "m2"}}

\* main.go:580-599: a request with the one event e
ReceiveOne(w, e) ==
    /\ pc[w] = "idle"
    /\ \A v \in Workers : v < w => pc[v] # "idle"
    /\ accepted < MaxRedeliveries
    /\ pc' = [pc EXCEPT ![w] = "loop"]
    /\ batch' = [batch EXCEPT ![w] = <<e>>]
    /\ accepted' = accepted + 1
    /\ UNCHANGED <<cacheVars, stats, ev, folderID, folderErr, dup, ret, folderCalls,
                   fetchCalls, uploadCalls, okUploads, failures, skips, recorded,
                   uploadedTo>>
    /\ UNCHANGED auxVars

RetNext ==
    \/ \E w \in Workers, e \in RedeliveredEvents : ReceiveOne(w, e)
    \/ \E w \in Workers, created \in BOOLEAN : Dispatch(w, created)
    \/ \E w \in Workers : CheckProcessed(w)
    \/ \E w \in Workers, o \in HandleFileOutcomes : HandleFile(w, o)
    \/ \E w \in Workers : MarkDone(w)
    \/ \E w \in Workers : RecordUpload(w)
    \/ \E w \in Workers : Finish(w)
    \/ \E d \in LongSteps : Tick(d)

RetSpec == Init /\ [][RetNext]_vars

-----------------------------------------------------------------------------
(* The MessageCache at the level of its lock: each goroutine takes mu,     *)
(* works on the map and releases mu on return (the deferred unlock)        *)

\* identifiers the goroutines call the cache with
McIds == {"m1", "m2"}

\* what the lock-level cache steps leave alone
mcFrame == <<now, stats, lastOp, everMarked, workerVars, historyVars,
             statsHistVars, gcLockVars, textVars>>

\* positions between c.mu.Lock() and the deferred c.mu.Unlock()
InsideWrite == {"insert", "sweep", "unlock"}
\* positions between c.mu.RLock() and the deferred c.mu.RUnlock()
InsideRead == {"read", "runlock"}

WritersInside == {c \in Clients : mpc[c] \in InsideWrite}
ReadersInside == {c \in Clients : mpc[c] \in InsideRead}

\* another goroutine is working on the map while c writes it
Racing(c) == \E d \in Clients \ {c} : mpc[d] \in InsideWrite \cup InsideRead

\* a goroutine calls cache.IsProcessed(messageID)
McCallIsProcessed(c, messageID) ==
    /\ mpc[c] = "idle"
    /\ mpc' = [mpc EXCEPT ![c] = "rlock"]
    /\ mArg' = [mArg EXCEPT ![c] = messageID]
    /\ UNCHANGED <<processed, mRet, mmuW, mmuR, markTime, mcFrame>>

\* c.mu.RLock(): waits while a writer holds mu
McRLock(c) ==
    /\ mpc[c] = "rlock"
    /\ mmuW = 0
    /\ mmuR' = mmuR \cup {c}
    /\ mpc' = [mpc EXCEPT ![c] = "read"]
    /\ UNCHANGED <<processed, mArg, mRet, mmuW, markTime, mcFrame>>

\* _, exists := c.processed[messageID]
McRead(c) ==
    /\ mpc[c] = "read"
    /\ mRet' = [mRet EXCEPT ![c] = IsProcessed(processed, mArg[c])]
    /\ mpc' = [mpc EXCEPT ![c] = "runlock"]
    /\ UNCHANGED <<processed, mArg, mmuW, mmuR, markTime, mcFrame>>

\* return exists, running the deferred c.mu.RUnlock()
McRUnlock(c) ==
    /\ mpc[c] = "runlock"
    /\ mmuR' = mmuR \ {c}
    /\ mpc' = [mpc EXCEPT ![c] = "idle"]
    /\ mArg' = [mArg EXCEPT ![c] = ""]
    /\ UNCHANGED <<processed, mRet, mmuW, markTime, mcFrame>>

\* a goroutine calls cache.MarkProcessed(messageID)
McCallMarkProcessed(c, messageID) ==
    /\ mpc[c] = "idle"
    /\ mpc' = [mpc EXCEPT ![c] = "lock"]
    /\ mArg' = [mArg EXCEPT ![c] = messageID]
    /\ mRet' = [mRet EXCEPT ![c] = FALSE]
    /\ UNCHANGED <<processed, mmuW, mmuR, markTime, mcFrame>>

\* a Lock that does not wait for the readers to leave
McLockOverReaders(c) ==
    /\ mpc[c] = "lock"
    /\ mmuW = 0
    /\ mmuW' = c
    /\ mpc' = [mpc EXCEPT ![c] = "insert"]
    /\ UNCHANGED <<processed, mArg, mRet, mmuR, markTime, mcFrame>>

\* c.mu.Lock(): waits while a writer or any reader holds mu
McLock(c) ==
    /\ mpc[c] = "lock"
    /\ mmuW = 0
    /\ mmuR = {}
    /\ mmuW' = c
    /\ mpc' = [mpc EXCEPT ![c] = "insert"]
    /\ UNCHANGED <<processed, mArg, mRet, mmuR, markTime, mcFrame>>

\* c.processed[messageID] = time.Now(); a map written while another
\* goroutine works on it is a data race, and the write may be lost
McInsert(c) ==
    /\ mpc[c] = "insert"
    /\ LET written == [id \in DOMAIN processed \cup {mArg[c]} |->
                         IF id = mArg[c] THEN now ELSE processed[id]]
       IN  processed' \in (IF Racing(c) THEN {written, processed} ELSE {written})
    /\ markTime' = [id \in DOMAIN markTime \cup {mArg[c]} |->
                       IF id = mArg[c] THEN now ELSE markTime[id]]
    /\ mpc' = [mpc EXCEPT ![c] = "sweep"]
    /\ UNCHANGED <<mArg, mRet, mmuW, mmuR, mcFrame>>

\* for id, t := range c.processed: delete the entries older than 24 hours
McSweep(c) ==
    /\ mpc[c] = "sweep"
    /\ processed' = [id \in DOMAIN processed \ Expired(processed, now)
                        |-> processed[id]]
    /\ mpc' = [mpc EXCEPT ![c] = "unlock"]
    /\ UNCHANGED <<mArg, mRet, mmuW, mmuR, markTime, mcFrame>>

\* return, running the deferred c.mu.Unlock()
McUnlock(c) ==
    /\ mpc[c] = "unlock"
    /\ mmuW' = 0
    /\ mpc' = [mpc EXCEPT ![c] = "idle"]
    /\ mArg' = [mArg EXCEPT ![c] = ""]
    /\ UNCHANGED <<processed, mRet, mmuR, markTime, mcFrame>>

McNext ==
    \/ \E c \in Clients, m \in McIds : McCallIsProcessed(c, m)
    \/ \E c \in Clients : McRLock(c)
    \/ \E c \in Clients : McRead(c)
    \/ \E c \in Clients : McRUnlock(c)
    \/ \E c \in Clients, m \in McIds : McCallMarkProcessed(c, m)
    \/ \E c \in Clients : McLock(c)
    \/ \E c \in Clients : McInsert(c)
    \/ \E c \in Clients : McSweep(c)
    \/ \E c \in Clients : McUnlock(c)
    \/ \E d \in LongSteps : Tick(d)

McSpec == Init /\ [][McNext]_vars

-----------------------------------------------------------------------------
(* The GroupCache driven directly through its four methods, one call       *)
(* after the other, as TestGroupCache drives it                            *)

\* AddUploadedFile and IncrementUploads calls made on the store so far
AddsMade == SumOver([s \in StatScopes |-> Len(adds[s])], StatScopes)
IncsMade == SumOver(incs, StatScopes)
CallsMade == AddsMade + IncsMade

\* what the direct store calls leave alone
statsFrame == <<processed, lastOp, everMarked, workerVars, historyVars,
                mcLockVars, gcLockVars, textVars>>

\* cache.AddUploadedFile(groupID, fileName), d hours after the last call
CallAddUploadedFile(groupID, fileName, d) ==
    /\ CallsMade < MaxCalls
    /\ now + d <= MaxTime
    /\ now' = now + d
    /\ stats' = AddUploadedFileMap(stats, groupID, fileName, now')
    /\ adds' = [adds EXCEPT ![groupID] =
                    Append(@, [Name |-> fileName, Timestamp |-> now'])]
    /\ statsRet' = NoRet
    /\ UNCHANGED <<incs, statsFrame>>

\* cache.IncrementUploads(groupID), d hours after the last call
CallIncrementUploads(groupID, d) ==
    /\ CallsMade < MaxCalls
    /\ now + d <= MaxTime
    /\ now' = now + d
    /\ stats' = IncrementUploadsMap(stats, groupID, now')
    /\ incs' = [incs EXCEPT ![groupID] = @ + 1]
    /\ statsRet' = NoRet
    /\ UNCHANGED <<adds, statsFrame>>

\* a GetStats that makes a record for a scope it does not find
CallGetStatsCreating(groupID) ==
    /\ LET r == GetStats(stats, groupID)
       IN  statsRet' = [op |-> "GetStats", groupID |-> groupID,
                        count |-> r[1], last |-> r[2], files |-> r[3]]
    /\ stats' = [g \in DOMAIN stats \cup {groupID} |->
                    IF g \in DOMAIN stats THEN stats[g] ELSE ZeroStats]
    /\ UNCHANGED <<now, adds, incs, statsFrame>>

\* count, lastUpload, files := cache.GetStats(groupID)
CallGetStats(groupID) ==
    /\ LET r == GetStats(stats, groupID)
       IN  statsRet' = [op |-> "GetStats", groupID |-> groupID,
                        count |-> r[1], last |-> r[2], files |-> r[3]]
    /\ UNCHANGED <<now, stats, adds, incs, statsFrame>>

\* count, lastUpload, files := cache.GetGlobalStats()
CallGetGlobalStats ==
    /\ \E r \in GetGlobalStats(stats) :
          statsRet' = [op |-> "GetGlobalStats", groupID |-> "",
                       count |-> r[1], last |-> r[2], files |-> r[3]]
    /\ UNCHANGED <<now, stats, adds, incs, statsFrame>>

StatsNext ==
    \/ \E g \in StatScopes, d \in StatSteps :
          CallAddUploadedFile(g, FileNameOf(AddsMade + 1), d)
    \/ \E g \in StatScopes, d \in StatSteps : CallIncrementUploads(g, d)
    \/ \E g \in StatScopes : CallGetStats(g)
    \/ CallGetGlobalStats

StatsSpec == Init /\ [][StatsNext]_vars

-----------------------------------------------------------------------------
(* The GroupCache at the level of its locks: GroupCache.mu over the map    *)
(* and GroupStats.mu in every record. Each goroutine takes the locks,      *)
(* works on the record and releases them on return, the deferred unlocks   *)
(* running in the reverse order of the defer statements                    *)

\* what the lock-level store steps leave alone
gcFrame == <<now, processed, lastOp, everMarked, workerVars, historyVars,
             incs, statsRet, mcLockVars, textVars>>

\* AddUploadedFile calls begun on the store
GcCallsMade == SumOver(gCalls, StoreClients)

\* AddUploadedFile calls begun on a scope, returned or not
GcBegun(g) ==
    Len(adds[g]) + Cardinality({c \in StoreClients :
                                   gArg[c].groupID = g /\ gArg[c].fileName # ""})

\* positions of AddUploadedFile at which it changes the record of its scope
Mutating == {"a_read", "a_write", "a_files"}

\* a goroutine calls cache.AddUploadedFile(groupID, fileName)
GcCallAdd(c, groupID) ==
    /\ gpc[c] = "idle"
    /\ gCalls[c] < MaxPerClient
    /\ gCalls' = [gCalls EXCEPT ![c] = @ + 1]
    /\ gArg' = [gArg EXCEPT ![c] = [groupID |-> groupID,
                                    fileName |-> FileNameOf(GcBegun(groupID) + 1)]]
    /\ gpc' = [gpc EXCEPT ![c] = "a_lock"]
    /\ UNCHANGED <<stats, adds, gTmp, cmuW, cmuR, smuW, smuR, gRead, gTodo, gcFrame>>

\* a Lock of the store that does not wait
GcAddLockNoWait(c) ==
    /\ gpc[c] = "a_lock"
    /\ cmuW' = c
    /\ gpc' = [gpc EXCEPT ![c] = "a_find"]
    /\ UNCHANGED <<stats, adds, gArg, gTmp, gCalls, cmuR, smuW, smuR, gRead, gTodo, gcFrame>>

\* main.go:168 c.mu.Lock(): waits while a writer or any reader holds c.mu
GcAddLock(c) ==
    /\ gpc[c] = "a_lock"
    /\ cmuW = 0
    /\ cmuR = {}
    /\ cmuW' = c
    /\ gpc' = [gpc EXCEPT ![c] = "a_find"]
    /\ UNCHANGED <<stats, adds, gArg, gTmp, gCalls, cmuR, smuW, smuR, gRead, gTodo, gcFrame>>

\* main.go:171 if _, exists := c.stats[groupID]; !exists
GcAddFind(c) ==
    /\ gpc[c] = "a_find"
    /\ gpc' = [gpc EXCEPT ![c] = IF gArg[c].groupID \in DOMAIN stats
                                   THEN "a_slock" ELSE "a_create"]
    /\ UNCHANGED <<stats, adds, gArg, gTmp, gCalls, cmuW, cmuR, smuW, smuR, gRead, gTodo, gcFrame>>

\* main.go:172 c.stats[groupID] = &GroupStats{}
GcAddCreate(c) ==
    /\ gpc[c] = "a_create"
    /\ stats' = [g \in DOMAIN stats \cup {gArg[c].groupID} |->
                    IF g = gArg[c].groupID THEN ZeroStats ELSE stats[g]]
    /\ gpc' = [gpc EXCEPT ![c] = "a_slock"]
    /\ UNCHANGED <<adds, gArg, gTmp, gCalls, cmuW, cmuR, smuW, smuR, gRead, gTodo, gcFrame>>

\* main.go:175-176 stats := c.stats[groupID]; stats.mu.Lock()
GcAddStatsLock(c) ==
    /\ gpc[c] = "a_slock"
    /\ smuW[gArg[c].groupID] = 0
    /\ smuR[gArg[c].groupID] = {}
    /\ smuW' = [smuW EXCEPT ![gArg[c].groupID] = c]
    /\ gpc' = [gpc EXCEPT ![c] = "a_read"]
    /\ UNCHANGED <<stats, adds, gArg, gTmp, gCalls, cmuW, cmuR, smuR, gRead, gTodo, gcFrame>>

\* main.go:179 stats.TotalUploads++ : the read
GcAddRead(c) ==
    /\ gpc[c] = "a_read"
    /\ gTmp' = [gTmp EXCEPT ![c] = stats[gArg[c].groupID].TotalUploads]
    /\ gpc' = [gpc EXCEPT ![c] = "a_write"]
    /\ UNCHANGED <<stats, adds, gArg, gCalls, cmuW, cmuR, smuW, smuR, gRead, gTodo, gcFrame>>

\* main.go:179-180 stats.TotalUploads++ : the write; stats.LastUpload = time.Now()
GcAddWrite(c) ==
    /\ gpc[c] = "a_write"
    /\ stats' = [stats EXCEPT ![gArg[c].groupID] =
                     [@ EXCEPT !.TotalUploads = gTmp[c] + 1, !.LastUpload = now]]
    /\ gpc' = [gpc EXCEPT ![c] = "a_files"]
    /\ UNCHANGED <<adds, gArg, gTmp, gCalls, cmuW, cmuR, smuW, smuR, gRead, gTodo, gcFrame>>

\* main.go:183-192 the new FileInfo goes to the front, the list is cut to 5
GcAddFiles(c) ==
    /\ gpc[c] = "a_files"
    /\ stats' = [stats EXCEPT ![gArg[c].groupID] =
                     [@ EXCEPT !.RecentFiles =
                         Truncate(<<[Name |-> gArg[c].fileName, Timestamp |-> now]>>
                                  \o @)]]
    /\ gpc' = [gpc EXCEPT ![c] = "a_sunlock"]
    /\ UNCHANGED <<adds, gArg, gTmp, gCalls, cmuW, cmuR, smuW, smuR, gRead, gTodo, gcFrame>>

\* main.go:177 the deferred stats.mu.Unlock(), the first to run on return
GcAddStatsUnlock(c) ==
    /\ gpc[c] = "a_sunlock"
    /\ smuW' = [smuW EXCEPT ![gArg[c].groupID] = 0]
    /\ gpc' = [gpc EXCEPT ![c] = "a_unlock"]
    /\ UNCHANGED <<stats, adds, gArg, gTmp, gCalls, cmuW, cmuR, smuR, gRead, gTodo, gcFrame>>

\* main.go:169 the deferred c.mu.Unlock(), the last to run on return
GcAddUnlock(c) ==
    /\ gpc[c] = "a_unlock"
    /\ cmuW' = 0
    /\ adds' = [adds EXCEPT ![gArg[c].groupID] =
                    Append(@, [Name |-> gArg[c].fileName, Timestamp |-> now])]
    /\ gArg' = [gArg EXCEPT ![c] = NoCall]
    /\ gTmp' = [gTmp EXCEPT ![c] = 0]
    /\ gpc' = [gpc EXCEPT ![c] = "idle"]
    /\ UNCHANGED <<stats, gCalls, cmuR, smuW, smuR, gRead, gTodo, gcFrame>>

\* a goroutine calls cache.GetStats(groupID)
GcCallGet(c, groupID) ==
    /\ gpc[c] = "idle"
    /\ gArg' = [gArg EXCEPT ![c] = [groupID |-> groupID, fileName |-> ""]]
    /\ gpc' = [gpc EXCEPT ![c] = "g_rlock"]
    /\ UNCHANGED <<stats, adds, gTmp, gCalls, cmuW, cmuR, smuW, smuR, gRead, gTodo, gcFrame>>

\* what a read holds once it has fetched one more field of a scope's record
Fetched(r, g, field, value) ==
    LET old == IF g \in DOMAIN r THEN r[g] ELSE << >>
        new == [f \in DOMAIN old \cup {field} |-> IF f = field THEN value ELSE old[f]]
    IN  [x \in DOMAIN r \cup {g} |-> IF x = g THEN new ELSE r[x]]

\* a GetStats that goes to the record without taking any lock
GcGetNoLocks(c) ==
    /\ gpc[c] = "g_rlock"
    /\ gpc' = [gpc EXCEPT ![c] = IF gArg[c].groupID \in DOMAIN stats
                                   THEN "g_read" ELSE "g_runlock"]
    /\ UNCHANGED <<stats, adds, gArg, gTmp, gCalls, gRead, gTodo, cmuW, cmuR, smuW, smuR, gcFrame>>

\* main.go:196 c.mu.RLock(): waits while a writer holds c.mu
GcGetRLock(c) ==
    /\ gpc[c] = "g_rlock"
    /\ cmuW = 0
    /\ cmuR' = cmuR \cup {c}
    /\ gpc' = [gpc EXCEPT ![c] = "g_find"]
    /\ UNCHANGED <<stats, adds, gArg, gTmp, gCalls, cmuW, smuW, smuR, gRead, gTodo, gcFrame>>

\* main.go:199 if stats, exists := c.stats[groupID]; exists
GcGetFind(c) ==
    /\ gpc[c] = "g_find"
    /\ gpc' = [gpc EXCEPT ![c] = IF gArg[c].groupID \in DOMAIN stats
                                   THEN "g_srlock" ELSE "g_runlock"]
    /\ UNCHANGED <<stats, adds, gArg, gTmp, gCalls, cmuW, cmuR, smuW, smuR, gRead, gTodo, gcFrame>>

\* main.go:200 stats.mu.RLock()
GcGetStatsRLock(c) ==
    /\ gpc[c] = "g_srlock"
    /\ smuW[gArg[c].groupID] = 0
    /\ smuR' = [smuR EXCEPT ![gArg[c].groupID] = @ \cup {c}]
    /\ gpc' = [gpc EXCEPT ![c] = "g_read"]
    /\ UNCHANGED <<stats, adds, gArg, gTmp, gCalls, cmuW, cmuR, smuW, gRead, gTodo, gcFrame>>

\* main.go:202 return stats.TotalUploads, ... : the counter is read
GcGetReadCount(c) ==
    /\ gpc[c] = "g_read"
    /\ gRead' = [gRead EXCEPT ![c] = Fetched(@, gArg[c].groupID, "count",
                                       stats[gArg[c].groupID].TotalUploads)]
    /\ gpc' = [gpc EXCEPT ![c] = "g_last"]
    /\ UNCHANGED <<stats, adds, gArg, gTmp, gCalls, gTodo, cmuW, cmuR, smuW, smuR, gcFrame>>

\* main.go:202 return ..., stats.LastUpload, ... : the time is read
GcGetReadLast(c) ==
    /\ gpc[c] = "g_last"
    /\ gRead' = [gRead EXCEPT ![c] = Fetched(@, gArg[c].groupID, "last",
                                       stats[gArg[c].groupID].LastUpload)]
    /\ gpc' = [gpc EXCEPT ![c] = "g_files"]
    /\ UNCHANGED <<stats, adds, gArg, gTmp, gCalls, gTodo, cmuW, cmuR, smuW, smuR, gcFrame>>

\* main.go:202 return ..., stats.RecentFiles : the list is read
GcGetReadFiles(c) ==
    /\ gpc[c] = "g_files"
    /\ gRead' = [gRead EXCEPT ![c] = Fetched(@, gArg[c].groupID, "files",
                                       stats[gArg[c].groupID].RecentFiles)]
    /\ gpc' = [gpc EXCEPT ![c] = "g_srunlock"]
    /\ UNCHANGED <<stats, adds, gArg, gTmp, gCalls, gTodo, cmuW, cmuR, smuW, smuR, gcFrame>>

\* main.go:201 the deferred stats.mu.RUnlock()
GcGetStatsRUnlock(c) ==
    /\ gpc[c] = "g_srunlock"
    /\ smuR' = [smuR EXCEPT ![gArg[c].groupID] = @ \ {c}]
    /\ gpc' = [gpc EXCEPT ![c] = "g_runlock"]
    /\ UNCHANGED <<stats, adds, gArg, gTmp, gCalls, cmuW, cmuR, smuW, gRead, gTodo, gcFrame>>

\* main.go:197 the deferred c.mu.RUnlock()
GcGetRUnlock(c) ==
    /\ gpc[c] = "g_runlock"
    /\ cmuR' = cmuR \ {c}
    /\ gArg' = [gArg EXCEPT ![c] = NoCall]
    /\ gRead' = [gRead EXCEPT ![c] = << >>]
    /\ gpc' = [gpc EXCEPT ![c] = "idle"]
    /\ UNCHANGED <<stats, adds, gTmp, gCalls, gTodo, cmuW, smuW, smuR, gcFrame>>

\* a goroutine calls cache.GetGlobalStats()
GcCallGlobal(c) ==
    /\ gpc[c] = "idle"
    /\ gpc' = [gpc EXCEPT ![c] = "gg_rlock"]
    /\ UNCHANGED <<stats, adds, gArg, gTmp, gCalls, gRead, gTodo, cmuW, cmuR, smuW, smuR, gcFrame>>

\* a GetGlobalStats that ranges over the records without the store's lock
GcGlobalNoStoreLock(c) ==
    /\ gpc[c] = "gg_rlock"
    /\ gTodo' = [gTodo EXCEPT ![c] = DOMAIN stats]
    /\ gpc' = [gpc EXCEPT ![c] = "gg_next"]
    /\ UNCHANGED <<stats, adds, gArg, gTmp, gCalls, gRead, cmuW, cmuR, smuW, smuR, gcFrame>>

\* main.go:209 c.mu.RLock(); the range over c.stats starts
GcGlobalRLock(c) ==
    /\ gpc[c] = "gg_rlock"
    /\ cmuW = 0
    /\ cmuR' = cmuR \cup {c}
    /\ gTodo' = [gTodo EXCEPT ![c] = DOMAIN stats]
    /\ gpc' = [gpc EXCEPT ![c] = "gg_next"]
    /\ UNCHANGED <<stats, adds, gArg, gTmp, gCalls, gRead, cmuW, smuW, smuR, gcFrame>>

\* main.go:217 for _, stats := range c.stats : the next record, in no fixed
\* order; after the last one the files are sorted and the call returns
GcGlobalNext(c) ==
    /\ gpc[c] = "gg_next"
    /\ IF gTodo[c] = {}
       THEN /\ gpc' = [gpc EXCEPT ![c] = "gg_runlock"]
            /\ UNCHANGED <<gArg, gTodo>>
       ELSE \E g \in gTodo[c] :
               /\ gArg' = [gArg EXCEPT ![c] = [groupID |-> g, fileName |-> ""]]
               /\ gTodo' = [gTodo EXCEPT ![c] = @ \ {g}]
               /\ gpc' = [gpc EXCEPT ![c] = "gg_srlock"]
    /\ UNCHANGED <<stats, adds, gTmp, gCalls, gRead, cmuW, cmuR, smuW, smuR, gcFrame>>

\* main.go:218 stats.mu.RLock()
GcGlobalStatsRLock(c) ==
    /\ gpc[c] = "gg_srlock"
    /\ smuW[gArg[c].groupID] = 0
    /\ smuR' = [smuR EXCEPT ![gArg[c].groupID] = @ \cup {c}]
    /\ gpc' = [gpc EXCEPT ![c] = "gg_read"]
    /\ UNCHANGED <<stats, adds, gArg, gTmp, gCalls, gRead, gTodo, cmuW, cmuR, smuW, gcFrame>>

\* main.go:219 totalUploads += stats.TotalUploads
GcGlobalReadCount(c) ==
    /\ gpc[c] = "gg_read"
    /\ gRead' = [gRead EXCEPT ![c] = Fetched(@, gArg[c].groupID, "count",
                                       stats[gArg[c].groupID].TotalUploads)]
    /\ gpc' = [gpc EXCEPT ![c] = "gg_last"]
    /\ UNCHANGED <<stats, adds, gArg, gTmp, gCalls, gTodo, cmuW, cmuR, smuW, smuR, gcFrame>>

\* main.go:220-222 if stats.LastUpload.After(lastUpload)
GcGlobalReadLast(c) ==
    /\ gpc[c] = "gg_last"
    /\ gRead' = [gRead EXCEPT ![c] = Fetched(@, gArg[c].groupID, "last",
                                       stats[gArg[c].groupID].LastUpload)]
    /\ gpc' = [gpc EXCEPT ![c] = "gg_files"]
    /\ UNCHANGED <<stats, adds, gArg, gTmp, gCalls, gTodo, cmuW, cmuR, smuW, smuR, gcFrame>>

\* main.go:223 allFiles = append(allFiles, stats.RecentFiles...)
GcGlobalReadFiles(c) ==
    /\ gpc[c] = "gg_files"
    /\ gRead' = [gRead EXCEPT ![c] = Fetched(@, gArg[c].groupID, "files",
                                       stats[gArg[c].groupID].RecentFiles)]
    /\ gpc' = [gpc EXCEPT ![c] = "gg_srunlock"]
    /\ UNCHANGED <<stats, adds, gArg, gTmp, gCalls, gTodo, cmuW, cmuR, smuW, smuR, gcFrame>>

\* main.go:224 stats.mu.RUnlock()
GcGlobalStatsRUnlock(c) ==
    /\ gpc[c] = "gg_srunlock"
    /\ smuR' = [smuR EXCEPT ![gArg[c].groupID] = @ \ {c}]
    /\ gpc' = [gpc EXCEPT ![c] = "gg_next"]
    /\ UNCHANGED <<stats, adds, gArg, gTmp, gCalls, gRead, gTodo, cmuW, cmuR, smuW, gcFrame>>

\* main.go:210 the deferred c.mu.RUnlock()
GcGlobalRUnlock(c) ==
    /\ gpc[c] = "gg_runlock"
    /\ cmuR' = cmuR \ {c}
    /\ gArg' = [gArg EXCEPT ![c] = NoCall]
    /\ gRead' = [gRead EXCEPT ![c] = << >>]
    /\ gpc' = [gpc EXCEPT ![c] = "idle"]
    /\ UNCHANGED <<stats, adds, gTmp, gCalls, gTodo, cmuW, smuW, smuR, gcFrame>>

GcNext ==
    \/ \E c \in StoreClients, g \in StatScopes : GcCallAdd(c, g)
    \/ \E c \in StoreClients : GcAddLock(c)
    \/ \E c \in StoreClients : GcAddFind(c)
    \/ \E c \in StoreClients : GcAddCreate(c)
    \/ \E c \in StoreClients : GcAddStatsLock(c)
    \/ \E c \in StoreClients : GcAddRead(c)
    \/ \E c \in StoreClients : GcAddWrite(c)
    \/ \E c \in StoreClients : GcAddFiles(c)
    \/ \E c \in StoreClients : GcAddStatsUnlock(c)
    \/ \E c \in StoreClients : GcAddUnlock(c)
    \/ \E c \in StoreClients, g \in StatScopes : GcCallGet(c, g)
    \/ \E c \in StoreClients : GcGetRLock(c)
    \/ \E c \in StoreClients : GcGetFind(c)
    \/ \E c \in StoreClients : GcGetStatsRLock(c)
    \/ \E c \in StoreClients : GcGetReadCount(c)
    \/ \E c \in StoreClients : GcGetReadLast(c)
    \/ \E c \in StoreClients : GcGetReadFiles(c)
    \/ \E c \in StoreClients : GcGetStatsRUnlock(c)
    \/ \E c \in StoreClients : GcGetRUnlock(c)
    \/ \E c \in StoreClients : GcCallGlobal(c)
    \/ \E c \in StoreClients : GcGlobalRLock(c)
    \/ \E c \in StoreClients : GcGlobalNext(c)
    \/ \E c \in StoreClients : GcGlobalStatsRLock(c)
    \/ \E c \in StoreClients : GcGlobalReadCount(c)
    \/ \E c \in StoreClients : GcGlobalReadLast(c)
    \/ \E c \in StoreClients : GcGlobalReadFiles(c)
    \/ \E c \in StoreClients : GcGlobalStatsRUnlock(c)
    \/ \E c \in StoreClients : GcGlobalRUnlock(c)

GcSpec == Init /\ [][GcNext]_vars

-----------------------------------------------------------------------------
(* The dispatcher at the level of the cache locks: one goroutine per       *)
(* request handles one file event, and every call it makes on the          *)
(* MessageCache and the GroupCache takes and releases the mutexes of       *)
(* main.go:36-37, 43-44, 168-169 and 176-177. A call to Drive or to the    *)
(* LINE content API is a position where the goroutine waits for the answer *)

\* the file events whose scope the lock-level store knows
DlEvents == {e \in Events : e.kind \in FileKinds /\ TrackingGroupID(e) \in StatScopes}

\* what the steps of this dispatcher leave alone
dlFrame == <<now, lastOp, batch, folderCalls, fetchCalls, uploadCalls, okUploads,
             failures, skips, recorded, uploadedTo, statsHistVars, mpc, mArg,
             mRet, markTime, gpc, gArg, gTmp, gCalls, gRead, gTodo, cmuR, smuR,
             textVars>>

\* positions at which a goroutine waits for Drive or for the content API
Waiting == {"w_folder", "w_fetch", "w_upload"}

\* main.go:600-634: the goroutine takes its event; a group's folder is asked
\* of Drive before handleFileMessage is called
DlBegin(w, e) ==
    /\ pc[w] = "idle"
    /\ accepted < MaxDeliveries
    /\ accepted' = accepted + 1
    /\ ev' = [ev EXCEPT ![w] = e]
    /\ pc' = [pc EXCEPT ![w] = IF GroupIDOf(e) # "" THEN "w_folder" ELSE "rlock"]
    /\ UNCHANGED <<processed, everMarked, stats, folderID, folderErr, dup, ret, mmuW, mmuR, cmuW, smuW, dlFrame>>

\* main.go:633 getOrCreateGroupFolder returns
DlFolderReturns(w, created) ==
    /\ pc[w] = "w_folder"
    /\ folderID' = [folderID EXCEPT ![w] =
                       getOrCreateGroupFolder(GroupIDOf(ev[w]), RootFolder, created)]
    /\ folderErr' = [folderErr EXCEPT ![w] = ~ created]
    /\ pc' = [pc EXCEPT ![w] = "rlock"]
    /\ UNCHANGED <<processed, everMarked, stats, ev, dup, ret, accepted, mmuW, mmuR, cmuW, smuW, dlFrame>>

\* main.go:449 with 36: IsProcessed takes c.mu.RLock()
DlIsProcessedRLock(w) ==
    /\ pc[w] = "rlock"
    /\ mmuW = 0
    /\ mmuR' = mmuR \cup {w}
    /\ pc' = [pc EXCEPT ![w] = "lookup"]
    /\ UNCHANGED <<processed, everMarked, stats, ev, folderID, folderErr, dup, ret, accepted, mmuW, cmuW, smuW, dlFrame>>

\* main.go:38 _, exists := c.processed[messageID]
DlIsProcessedLookup(w) ==
    /\ pc[w] = "lookup"
    /\ dup' = [dup EXCEPT ![w] = IsProcessed(processed, ev[w].id)]
    /\ pc' = [pc EXCEPT ![w] = "runlock"]
    /\ UNCHANGED <<processed, everMarked, stats, ev, folderID, folderErr, ret, accepted, mmuW, mmuR, cmuW, smuW, dlFrame>>

\* an IsProcessed that returns with the read lock still held
DlIsProcessedKeepsLock(w) ==
    /\ pc[w] = "runlock"
    /\ ret' = [ret EXCEPT ![w] = IF dup[w] THEN "nil" ELSE "checked"]
    /\ pc' = [pc EXCEPT ![w] = IF dup[w] THEN "alock" ELSE "w_fetch"]
    /\ UNCHANGED <<processed, everMarked, stats, ev, folderID, folderErr, dup, accepted, mmuW, mmuR, cmuW, smuW, dlFrame>>

\* main.go:37 the deferred c.mu.RUnlock(); main.go:449-455: a duplicate makes
\* handleFileMessage return nil, anything else goes on to handleFile
DlIsProcessedRUnlock(w) ==
    /\ pc[w] = "runlock"
    /\ mmuR' = mmuR \ {w}
    /\ ret' = [ret EXCEPT ![w] = IF dup[w] THEN "nil" ELSE "checked"]
    /\ pc' = [pc EXCEPT ![w] = IF dup[w] THEN "alock" ELSE "w_fetch"]
    /\ UNCHANGED <<processed, everMarked, stats, ev, folderID, folderErr, dup, accepted, mmuW, cmuW, smuW, dlFrame>>

\* main.go:505 blob.GetMessageContent returns
DlFetchReturns(w, ok) ==
    /\ pc[w] = "w_fetch"
    /\ IF ok
       THEN /\ pc' = [pc EXCEPT ![w] = "w_upload"]
            /\ UNCHANGED <<ret, ev, folderID, folderErr, dup>>
       ELSE /\ pc' = [pc EXCEPT ![w] = "idle"]
            /\ ret' = [ret EXCEPT ![w] = "none"]
            /\ ev' = [ev EXCEPT ![w] = NoEvent]
            /\ folderID' = [folderID EXCEPT ![w] = RootFolder]
            /\ folderErr' = [folderErr EXCEPT ![w] = FALSE]
            /\ dup' = [dup EXCEPT ![w] = FALSE]
    /\ UNCHANGED <<processed, everMarked, stats, accepted, mmuW, mmuR, cmuW, smuW, dlFrame>>

\* main.go:545 driveService.Files().CreateFile returns
DlUploadReturns(w, ok) ==
    /\ pc[w] = "w_upload"
    /\ IF ok
       THEN /\ pc' = [pc EXCEPT ![w] = "mlock"]
            /\ ret' = [ret EXCEPT ![w] = "uploaded"]
            /\ UNCHANGED <<ev, folderID, folderErr, dup>>
       ELSE /\ pc' = [pc EXCEPT ![w] = "idle"]
            /\ ret' = [ret EXCEPT ![w] = "none"]
            /\ ev' = [ev EXCEPT ![w] = NoEvent]
            /\ folderID' = [folderID EXCEPT ![w] = RootFolder]
            /\ folderErr' = [folderErr EXCEPT ![w] = FALSE]
            /\ dup' = [dup EXCEPT ![w] = FALSE]
    /\ UNCHANGED <<processed, everMarked, stats, accepted, mmuW, mmuR, cmuW, smuW, dlFrame>>

\* main.go:460 with 43: MarkProcessed takes c.mu.Lock()
DlMarkLock(w) ==
    /\ pc[w] = "mlock"
    /\ mmuW = 0
    /\ mmuR = {}
    /\ mmuW' = w
    /\ pc' = [pc EXCEPT ![w] = "insert"]
    /\ UNCHANGED <<processed, everMarked, stats, ev, folderID, folderErr, dup, ret, accepted, mmuR, cmuW, smuW, dlFrame>>

\* main.go:46-52 the insert and the sweep
DlMarkInsert(w) ==
    /\ pc[w] = "insert"
    /\ processed' = MarkProcessedMap(processed, ev[w].id, now)
    /\ everMarked' = everMarked \cup {ev[w].id}
    /\ pc' = [pc EXCEPT ![w] = "munlock"]
    /\ UNCHANGED <<stats, ev, folderID, folderErr, dup, ret, accepted, mmuW, mmuR, cmuW, smuW, dlFrame>>

\* main.go:44 the deferred c.mu.Unlock(); handleFileMessage returns nil
DlMarkUnlock(w) ==
    /\ pc[w] = "munlock"
    /\ mmuW' = 0
    /\ ret' = [ret EXCEPT ![w] = "nil"]
    /\ pc' = [pc EXCEPT ![w] = "alock"]
    /\ UNCHANGED <<processed, everMarked, stats, ev, folderID, folderErr, dup, accepted, mmuR, cmuW, smuW, dlFrame>>

\* main.go:657 with 168: AddUploadedFile takes c.mu.Lock()
DlAddLock(w) ==
    /\ pc[w] = "alock"
    /\ cmuW = 0
    /\ cmuR = {}
    /\ cmuW' = w
    /\ pc' = [pc EXCEPT ![w] = "aslock"]
    /\ UNCHANGED <<processed, everMarked, stats, ev, folderID, folderErr, dup, ret, accepted, mmuW, mmuR, smuW, dlFrame>>

\* main.go:171-176 the record is found or made; stats.mu.Lock()
DlAddStatsLock(w) ==
    /\ pc[w] = "aslock"
    /\ smuW[TrackingGroupID(ev[w])] = 0
    /\ smuR[TrackingGroupID(ev[w])] = {}
    /\ smuW' = [smuW EXCEPT ![TrackingGroupID(ev[w])] = w]
    /\ pc' = [pc EXCEPT ![w] = "aupdate"]
    /\ UNCHANGED <<processed, everMarked, stats, ev, folderID, folderErr, dup, ret, accepted, mmuW, mmuR, cmuW, dlFrame>>

\* main.go:179-192 the counter, the time and the list
DlAddUpdate(w) ==
    /\ pc[w] = "aupdate"
    /\ stats' = AddUploadedFileMap(stats, TrackingGroupID(ev[w]),
                                   TrackingFileName(ev[w]), now)
    /\ pc' = [pc EXCEPT ![w] = "aunlock"]
    /\ UNCHANGED <<processed, everMarked, ev, folderID, folderErr, dup, ret, accepted, mmuW, mmuR, cmuW, smuW, dlFrame>>

\* main.go:177, 169 the deferred unlocks; the goroutine ends
DlAddUnlock(w) ==
    /\ pc[w] = "aunlock"
    /\ smuW' = [smuW EXCEPT ![TrackingGroupID(ev[w])] = 0]
    /\ cmuW' = 0
    /\ pc' = [pc EXCEPT ![w] = "idle"]
    /\ ret' = [ret EXCEPT ![w] = "none"]
    /\ ev' = [ev EXCEPT ![w] = NoEvent]
    /\ folderID' = [folderID EXCEPT ![w] = RootFolder]
    /\ folderErr' = [folderErr EXCEPT ![w] = FALSE]
    /\ dup' = [dup EXCEPT ![w] = FALSE]
    /\ UNCHANGED <<processed, everMarked, stats, accepted, mmuW, mmuR, dlFrame>>

DlNext ==
    \/ \E w \in Workers, e \in DlEvents : DlBegin(w, e)
    \/ \E w \in Workers, created \in BOOLEAN : DlFolderReturns(w, created)
    \/ \E w \in Workers : DlIsProcessedRLock(w)
    \/ \E w \in Workers : DlIsProcessedLookup(w)
    \/ \E w \in Workers : DlIsProcessedRUnlock(w)
    \/ \E w \in Workers, ok \in BOOLEAN : DlFetchReturns(w, ok)
    \/ \E w \in Workers, ok \in BOOLEAN : DlUploadReturns(w, ok)
    \/ \E w \in Workers : DlMarkLock(w)
    \/ \E w \in Workers : DlMarkInsert(w)
    \/ \E w \in Workers : DlMarkUnlock(w)
    \/ \E w \in Workers : DlAddLock(w)
    \/ \E w \in Workers : DlAddStatsLock(w)
    \/ \E w \in Workers : DlAddUpdate(w)
    \/ \E w \in Workers : DlAddUnlock(w)

DlSpec == Init /\ [][DlNext]_vars

-----------------------------------------------------------------------------
(* Text events: handleCommand called as main_test.go:690-795 and 1163 do,  *)
(* and the text branch of callbackHandler, between completed uploads       *)

\* what handling a text leaves alone besides the two caches
textFrame == <<now, lastOp, everMarked, workerVars, accepted, folderCalls,
               fetchCalls, uploadCalls, okUploads, failures, skips, uploadedTo,
               statsHistVars, mcLockVars, gcLockVars>>

\* uploads completed so far
TrackedSoFar == SumOver(recorded, MsgIds)

\* main.go:460 and 657: a file event has been uploaded, its identifier is
\* marked and the upload is tracked under its scope
FileUploaded(e) ==
    /\ TrackedSoFar < MaxTracked
    /\ now + 1 <= MaxTime
    /\ now' = now + 1
    /\ processed' = MarkProcessedMap(processed, e.id, now')
    /\ everMarked' = everMarked \cup {e.id}
    /\ stats' = AddUploadedFileMap(stats, TrackingGroupID(e), TrackingFileName(e), now')
    /\ recorded' = Bump(recorded, e.id)
    /\ cmd' = NoCmd
    /\ UNCHANGED <<lastOp, workerVars, accepted, folderCalls, fetchCalls,
                   uploadCalls, okUploads, failures, skips, uploadedTo,
                   statsHistVars, mcLockVars, gcLockVars>>

\* handleCommand(bot, text, groupID, replyToken, groupCache)
CallHandleCommand(bot, text, groupID, replyToken) ==
    /\ \E sent \in handleCommand(bot, text, groupID, replyToken, stats) :
          cmd' = [via |-> "handleCommand", bot |-> bot, text |-> text,
                  groupID |-> groupID, replyToken |-> replyToken, replies |-> sent]
    /\ UNCHANGED <<processed, stats, recorded, textFrame>>

\* Mutant of TextMessage: /stats makes the record of a group it does not find
TextMessageCreating(src, text, replyToken) ==
    /\ IF HasPrefix(text, <<"/">>)
       THEN \E sent \in handleCommand(TRUE, text, GroupIDOf(src), replyToken, stats) :
               cmd' = [via |-> "callbackHandler", bot |-> TRUE, text |-> text,
                       groupID |-> GroupIDOf(src), replyToken |-> replyToken,
                       replies |-> sent]
       ELSE cmd' = [via |-> "callbackHandler", bot |-> TRUE, text |-> text,
                    groupID |-> GroupIDOf(src), replyToken |-> replyToken,
                    replies |-> << >>]
    /\ stats' = IF text = StatsText /\ GroupIDOf(src) # "" /\ GroupIDOf(src) \notin DOMAIN stats
                THEN [g \in DOMAIN stats \cup {GroupIDOf(src)} |->
                         IF g = GroupIDOf(src) THEN ZeroStats ELSE stats[g]]
                ELSE stats
    /\ UNCHANGED <<processed, recorded, textFrame>>

\* main.go:603-627: a text event; a text that starts with "/" is handed to
\* handleCommand with the group of its source, any other text is ignored
TextMessage(src, text, replyToken) ==
    /\ IF HasPrefix(text, <<"/">>)
       THEN \E sent \in handleCommand(TRUE, text, GroupIDOf(src), replyToken, stats) :
               cmd' = [via |-> "callbackHandler", bot |-> TRUE, text |-> text,
                       groupID |-> GroupIDOf(src), replyToken |-> replyToken,
                       replies |-> sent]
       ELSE cmd' = [via |-> "callbackHandler", bot |-> TRUE, text |-> text,
                    groupID |-> GroupIDOf(src), replyToken |-> replyToken,
                    replies |-> << >>]
    /\ UNCHANGED <<processed, stats, recorded, textFrame>>

TextNext ==
    \/ \E e \in DlEvents : FileUploaded(e)
    \/ \E bot \in BOOLEAN, text \in Texts, g \in CommandGroups, tok \in ReplyTokens :
          CallHandleCommand(bot, text, g, tok)
    \/ \E src \in TextSources, text \in Texts, tok \in ReplyTokens :
          TextMessage(src, text, tok)

TextSpec == Init /\ [][TextNext]_vars

-----------------------------------------------------------------------------
(* IncrementUploads at the level of the locks, and the two caches with     *)
(* all their methods called from goroutines. The caches share no lock and  *)
(* no data, so the goroutines are let loose on one cache at a time: the    *)
(* steps on one cache are taken while the other has not been called yet    *)

\* what the lock-level steps of IncrementUploads leave alone
gcIncFrame == <<now, processed, lastOp, everMarked, workerVars, historyVars,
                statsRet, mcLockVars, textVars>>

\* a goroutine calls cache.IncrementUploads(groupID)
GcCallInc(c, groupID) ==
    /\ gpc[c] = "idle"
    /\ gCalls[c] < MaxPerClient
    /\ gCalls' = [gCalls EXCEPT ![c] = @ + 1]
    /\ gArg' = [gArg EXCEPT ![c] = [groupID |-> groupID, fileName |-> ""]]
    /\ gpc' = [gpc EXCEPT ![c] = "i_lock"]
    /\ UNCHANGED <<stats, adds, incs, gTmp, gRead, gTodo, cmuW, cmuR, smuW, smuR, gcIncFrame>>

\* main.go:152 c.mu.Lock()
GcIncLock(c) ==
    /\ gpc[c] = "i_lock"
    /\ cmuW = 0
    /\ cmuR = {}
    /\ cmuW' = c
    /\ gpc' = [gpc EXCEPT ![c] = "i_find"]
    /\ UNCHANGED <<stats, adds, incs, gArg, gTmp, gCalls, gRead, gTodo, cmuR, smuW, smuR, gcIncFrame>>

\* main.go:155-157 the record is made if it does not exist
GcIncFind(c) ==
    /\ gpc[c] = "i_find"
    /\ stats' = [g \in DOMAIN stats \cup {gArg[c].groupID} |->
                    IF g \in DOMAIN stats THEN stats[g] ELSE ZeroStats]
    /\ gpc' = [gpc EXCEPT ![c] = "i_slock"]
    /\ UNCHANGED <<adds, incs, gArg, gTmp, gCalls, gRead, gTodo, cmuW, cmuR, smuW, smuR, gcIncFrame>>

\* main.go:159-160 stats := c.stats[groupID]; stats.mu.Lock()
GcIncStatsLock(c) ==
    /\ gpc[c] = "i_slock"
    /\ smuW[gArg[c].groupID] = 0
    /\ smuR[gArg[c].groupID] = {}
    /\ smuW' = [smuW EXCEPT ![gArg[c].groupID] = c]
    /\ gpc' = [gpc EXCEPT ![c] = "i_write"]
    /\ UNCHANGED <<stats, adds, incs, gArg, gTmp, gCalls, gRead, gTodo, cmuW, cmuR, smuR, gcIncFrame>>

\* main.go:163-164 stats.TotalUploads++; stats.LastUpload = time.Now()
GcIncWrite(c) ==
    /\ gpc[c] = "i_write"
    /\ stats' = [stats EXCEPT ![gArg[c].groupID] =
                     [@ EXCEPT !.TotalUploads = @ + 1, !.LastUpload = now]]
    /\ gpc' = [gpc EXCEPT ![c] = "i_sunlock"]
    /\ UNCHANGED <<adds, incs, gArg, gTmp, gCalls, gRead, gTodo, cmuW, cmuR, smuW, smuR, gcIncFrame>>

\* main.go:161 the deferred stats.mu.Unlock()
GcIncStatsUnlock(c) ==
    /\ gpc[c] = "i_sunlock"
    /\ smuW' = [smuW EXCEPT ![gArg[c].groupID] = 0]
    /\ gpc' = [gpc EXCEPT ![c] = "i_unlock"]
    /\ UNCHANGED <<stats, adds, incs, gArg, gTmp, gCalls, gRead, gTodo, cmuW, cmuR, smuR, gcIncFrame>>

\* an IncrementUploads that returns with the store's lock held
GcIncReturnsLocked(c) ==
    /\ gpc[c] = "i_unlock"
    /\ incs' = [incs EXCEPT ![gArg[c].groupID] = @ + 1]
    /\ gArg' = [gArg EXCEPT ![c] = NoCall]
    /\ gpc' = [gpc EXCEPT ![c] = "idle"]
    /\ UNCHANGED <<stats, adds, gTmp, gCalls, gRead, gTodo, cmuW, cmuR, smuW, smuR, gcIncFrame>>

\* main.go:153 the deferred c.mu.Unlock()
GcIncUnlock(c) ==
    /\ gpc[c] = "i_unlock"
    /\ cmuW' = 0
    /\ incs' = [incs EXCEPT ![gArg[c].groupID] = @ + 1]
    /\ gArg' = [gArg EXCEPT ![c] = NoCall]
    /\ gpc' = [gpc EXCEPT ![c] = "idle"]
    /\ UNCHANGED <<stats, adds, gTmp, gCalls, gRead, gTodo, cmuR, smuW, smuR, gcIncFrame>>

\* the steps a goroutine takes inside a MessageCache method it has called
McStep(c) ==
    \/ McRLock(c) \/ McRead(c) \/ McRUnlock(c)
    \/ McLock(c) \/ McInsert(c) \/ McSweep(c) \/ McUnlock(c)

\* the steps a goroutine takes inside a GroupCache method it has called
GcStep(c) ==
    \/ GcAddLock(c) \/ GcAddFind(c) \/ GcAddCreate(c) \/ GcAddStatsLock(c)
    \/ GcAddRead(c) \/ GcAddWrite(c) \/ GcAddFiles(c) \/ GcAddStatsUnlock(c)
    \/ GcAddUnlock(c)
    \/ GcIncLock(c) \/ GcIncFind(c) \/ GcIncStatsLock(c) \/ GcIncWrite(c)
    \/ GcIncStatsUnlock(c) \/ GcIncUnlock(c)
    \/ GcGetRLock(c) \/ GcGetFind(c) \/ GcGetStatsRLock(c) \/ GcGetReadCount(c)
    \/ GcGetReadLast(c) \/ GcGetReadFiles(c) \/ GcGetStatsRUnlock(c)
    \/ GcGetRUnlock(c)
    \/ GcGlobalRLock(c) \/ GcGlobalNext(c) \/ GcGlobalStatsRLock(c)
    \/ GcGlobalReadCount(c) \/ GcGlobalReadLast(c) \/ GcGlobalReadFiles(c)
    \/ GcGlobalStatsRUnlock(c) \/ GcGlobalRUnlock(c)

\* no method of the MessageCache has been called yet
CacheNotCalled ==
    /\ \A c \in Clients : mpc[c] = "idle"
    /\ processed = << >>
    /\ now = 0

\* no method of the GroupCache has been called yet
StoreNotCalled ==
    /\ \A c \in StoreClients : gpc[c] = "idle" /\ gCalls[c] = 0
    /\ stats = << >>

\* the goroutines together have calls of the GroupCache left to make
StoreCallsLeft ==
    Cardinality({ck \in StoreClients \X (1..MaxPerClient) : ck[2] <= gCalls[ck[1]]})
        <= MaxPerClient

LockNext ==
    \/ StoreNotCalled /\ \E c \in Clients, m \in McIds : McCallIsProcessed(c, m)
    \/ StoreNotCalled /\ \E c \in Clients, m \in McIds : McCallMarkProcessed(c, m)
    \/ StoreNotCalled /\ \E c \in Clients : McStep(c)
    \/ StoreNotCalled /\ \E d \in LongSteps : Tick(d)
    \/ CacheNotCalled /\ StoreCallsLeft /\ \E c \in StoreClients, g \in StatScopes : GcCallAdd(c, g)
    \/ CacheNotCalled /\ StoreCallsLeft /\ \E c \in StoreClients, g \in StatScopes : GcCallInc(c, g)
    \/ CacheNotCalled /\ StoreCallsLeft /\ \E c \in StoreClients, g \in StatScopes : GcCallGet(c, g)
    \/ CacheNotCalled /\ StoreCallsLeft /\ \E c \in StoreClients : GcCallGlobal(c)
    \/ CacheNotCalled /\ \E c \in StoreClients : GcStep(c)

LockSpec == Init /\ [][LockNext]_vars

-----------------------------------------------------------------------------
(* Shorthands of the properties *)

\* TotalUploads of a scope, 0 when the scope has no record
Counter(st, s) == IF s \in DOMAIN st THEN st[s].TotalUploads ELSE 0

ScopeOf(m) == TrackingGroupID(EventOf(m))

SameScope(m) == { x \in MsgIds : ScopeOf(x) = ScopeOf(m) }

\* No delivery of m is under way or waiting in a batch
Quiet(m) ==
    \A w \in Workers :
        /\ CountIn(batch[w], m) = 0
        /\ pc[w] \in {"check", "handle", "mark", "record"} => ev[w].id # m

\* The name the dispatcher tracks an event under, written out per event
ExpectedName(e) ==
    CASE e.id = "m1" -> "file.jpg"
      [] e.id = "m2" -> "report.pdf"
      [] e.id = "m3" -> "file.mp4"
      [] e.id = "m4" -> "file.m4a"
      [] OTHER       -> ""

\* The step is a MarkProcessed call made directly on the cache
IsMarkCall == lastOp'.op = "mark" /\ lastOp' # lastOp

\* The step is an IsProcessed call made directly on the cache
IsReadCall == lastOp'.op = "isProcessed" /\ lastOp' # lastOp

-----------------------------------------------------------------------------
(* Properties of the dispatcher (Spec) *)

\* C1: for every identifier m, while every entry is within the retention
\* window and no upload of m has failed, the upload collaborator is invoked
\* for m at most once, whatever the interleaving of the batches delivering m.
C1_AtMostOneUpload ==
    \A m \in MsgIds :
        (now <= Retention /\ uploadCalls[m] = okUploads[m]) => uploadCalls[m] <= 1

\* C2: dispatching a duplicate delivery (IsProcessed answered true for it)
\* leaves the stats store unchanged.
C2_DuplicateLeavesStats ==
    [][ \A w \in Workers :
          (pc[w] = "record" /\ dup[w] /\ pc'[w] # "record") => stats' = stats ]_vars

\* C3: when handleFileMessage finds its identifier in the cache it returns
\* nil without entering handleFile: no content fetch, no upload, and the
\* cache (timestamps included) is unchanged.
C3_DuplicateSkipped ==
    [][ \A w \in Workers :
          (pc[w] = "check" /\ ev[w].id \in DOMAIN processed /\ pc'[w] # "check")
          => /\ ret'[w] = "nil"
             /\ pc'[w] = "record"
             /\ fetchCalls' = fetchCalls
             /\ uploadCalls' = uploadCalls
             /\ processed' = processed ]_vars

C3_Witness ==
    \E w \in Workers :
        /\ pc[w] = "record" /\ dup[w] /\ ret[w] = "nil"
        /\ ev[w].id \in DOMAIN processed
        /\ uploadCalls[ev[w].id] = 1

\* C4: when handleFile fails (content fetch or upload), handleFileMessage
\* returns an error to the dispatcher and the step changes neither cache: the
\* identifier is as unprocessed as before and no scope's stats change.
C4_FailureNotRecorded ==
    [][ \A w \in Workers :
          (pc[w] = "handle" /\ pc'[w] # "handle" /\ pc'[w] # "mark")
          => /\ ret'[w] = "err"
             /\ pc'[w] = "loop"
             /\ failures'[ev[w].id] = failures[ev[w].id] + 1
             /\ processed' = processed
             /\ stats' = stats
             /\ recorded' = recorded ]_vars

C4_Witness ==
    \E w \in Workers :
        /\ pc[w] = "loop" /\ ret[w] = "err"
        /\ uploadCalls[ev[w].id] = 1 /\ okUploads[ev[w].id] = 0
        /\ ~ IsProcessed(processed, ev[w].id)
        /\ stats = << >>

\* C5: a delivery is skipped as duplicate only after an upload of its
\* identifier succeeded, so after failures alone the identifier is unmarked
\* and every later delivery retries; and once a retry has succeeded (one
\* success, at least one failure, no delivery under way) the identifier has
\* been marked, is recorded exactly once, and its scope's counter is the
\* number of recorded uploads of that scope.
C5_RetryAfterFailure ==
    \A m \in MsgIds :
        /\ okUploads[m] = 0 => (skips[m] = 0 /\ m \notin DOMAIN processed)
        /\ (failures[m] >= 1 /\ okUploads[m] = 1 /\ skips[m] = 0 /\ Quiet(m))
           => /\ uploadCalls[m] >= 1
              /\ m \in everMarked
              /\ now <= Retention => m \in DOMAIN processed
              /\ recorded[m] = 1
              /\ Counter(stats, ScopeOf(m)) = SumOver(recorded, SameScope(m))

C5_Witness ==
    \E m \in MsgIds :
        /\ failures[m] = 1 /\ okUploads[m] = 1 /\ skips[m] = 0 /\ Quiet(m)
        /\ uploadCalls[m] = 2
        /\ m \in DOMAIN processed
        /\ Counter(stats, ScopeOf(m)) = 1

\* C6: for a file event of any of the four kinds whose identifier was not
\* yet processed and whose upload succeeded, the identifier is in the cache
\* when MarkProcessed returns, and the tracking step raises the counter of
\* the event's scope by exactly 1 and puts the event's file name at the head
\* of that scope's recent files.
C6_SuccessMarkedAndRecorded ==
    [][ \A w \in Workers :
          /\ (pc[w] = "mark" /\ pc'[w] # "mark")
             => (pc'[w] = "record" /\ ev[w].id \in DOMAIN processed')
          /\ (pc[w] = "record" /\ ~ dup[w] /\ pc'[w] # "record")
             => LET s == ScopeOf(ev[w].id) IN
                /\ ev[w].kind \in FileKinds
                /\ Counter(stats', s) = Counter(stats, s) + 1
                /\ Head(stats'[s].RecentFiles).Name = ExpectedName(ev[w])
                /\ \A g \in DOMAIN stats \ {s} : stats'[g] = stats[g] ]_vars

C6_Witness ==
    \E w \in Workers :
        /\ pc[w] = "loop" /\ ret[w] = "nil" /\ ~ dup[w]
        /\ ev[w].kind = "audio"
        /\ ev[w].id \in DOMAIN processed
        /\ Counter(stats, DirectScope) = 2
        /\ stats[DirectScope].RecentFiles[1].Name = "file.m4a"
        /\ stats[DirectScope].RecentFiles[2].Name = "report.pdf"

-----------------------------------------------------------------------------
(* Properties of the MessageCache (CacheSpec) *)

\* C7: an identifier MarkProcessed was never called for is not processed,
\* and the identifier of a MarkProcessed call is processed when the call
\* returns: the call's own sweep does not remove what it inserted.
C7_ProcessedIffMarked ==
    /\ \A m \in MsgIds : m \notin everMarked => ~ IsProcessed(processed, m)
    /\ lastOp.op = "mark" => IsProcessed(processed, lastOp.id)

C7_Witness ==
    /\ lastOp.op = "mark"
    /\ IsProcessed(processed, lastOp.id)
    /\ \E m \in CacheIds : m \notin everMarked
    /\ \E m \in everMarked : m \notin DOMAIN processed

\* C8: when a MarkProcessed call returns, the cache holds no entry older
\* than 24 hours.
C8_NoStaleAfterMark ==
    (lastOp.op = "mark" /\ lastOp.at = now)
    => \A m \in DOMAIN processed : now - processed[m] <= Retention

C8_Witness ==
    /\ lastOp.op = "mark" /\ lastOp.at = now
    /\ \E m \in everMarked : m \notin DOMAIN processed
    /\ \E m \in DOMAIN processed : m # lastOp.id

\* C9: no step removes an entry whose age is at most 24 hours; in particular
\* MarkProcessed keeps an entry of age exactly 24 hours, with its timestamp
\* when the entry is another identifier's.
C9_FreshEntriesKept ==
    [][ \A m \in DOMAIN processed :
          now - processed[m] <= Retention
          => /\ m \in DOMAIN processed'
             /\ (IsMarkCall /\ lastOp'.id # m) => processed'[m] = processed[m] ]_vars

C9_Witness ==
    /\ lastOp.op = "mark" /\ lastOp.at = now
    /\ \E m \in DOMAIN processed : m # lastOp.id /\ now - processed[m] = Retention

\* C10: only a MarkProcessed call changes the cache: the passage of time and
\* IsProcessed calls leave every entry in place, and IsProcessed answers true
\* for an entry however old it is.
C10_SweepOnWriteOnly ==
    [][ /\ ~ IsMarkCall => processed' = processed
        /\ IsReadCall => lastOp'.result = (lastOp'.id \in DOMAIN processed) ]_vars

C10_Witness ==
    /\ lastOp.op = "isProcessed" /\ lastOp.at = now /\ lastOp.result
    /\ now - processed[lastOp.id] > Retention

-----------------------------------------------------------------------------
\* C11: IsProcessed is a pure lookup. Whatever the identifier and whatever the
\* cache holds, the call returns a boolean (it has no error path and is always
\* possible) and leaves the cached identifiers and their timestamps as they
\* were, entries past the retention window included.
C11_IsProcessedPure ==
    [][IsReadCall =>
          /\ lastOp'.result \in BOOLEAN
          /\ DOMAIN processed' = DOMAIN processed
          /\ \A id \in DOMAIN processed : processed'[id] = processed[id]
          /\ \A m \in CacheIds : ENABLED CallIsProcessed(m)]_vars

\* a lookup has just run on a cache holding an entry past the window
C11_Witness ==
    /\ lastOp.op = "isProcessed"
    /\ lastOp.at = now
    /\ Expired(processed, now) # {}

-----------------------------------------------------------------------------
\* C12: on the MessageCache at most one MarkProcessed is between its Lock and
\* its Unlock, and while one is, no IsProcessed is between its RLock and its
\* RUnlock (several IsProcessed may be there together, see the witness).
\* Consequently every identifier whose last insert is no older than the
\* retention window is in the map with the time of that insert, whatever the
\* interleaving of the MarkProcessed calls.
C12_WriterExclusion ==
    /\ Cardinality(WritersInside) <= 1
    /\ WritersInside # {} => ReadersInside = {}
    /\ \A id \in DOMAIN markTime :
          Since(now, markTime[id]) <= Retention =>
             /\ id \in DOMAIN processed
             /\ processed[id] = markTime[id]

\* two lookups are inside together while a MarkProcessed waits for the lock,
\* after an earlier MarkProcessed of another identifier has returned
C12_Witness ==
    /\ Cardinality(ReadersInside) >= 2
    /\ \E c \in Clients :
          /\ mpc[c] = "lock"
          /\ \E id \in DOMAIN processed : id # mArg[c]

-----------------------------------------------------------------------------
(* Shorthands of the store properties *)

\* the names of a list of FileInfo
NamesOf(files) == [k \in 1 .. Len(files) |-> files[k].Name]

\* the names of the last min(n, 5) calls of a history, last call first
LastNamesReversed(h) ==
    LET n == Len(h)
        k == IF n < RecentCap THEN n ELSE RecentCap
    IN  [i \in 1 .. k |-> h[n + 1 - i].Name]

\* every upload the store was ever given
AllUploads == UNION {{adds[s][k] : k \in 1 .. Len(adds[s])} : s \in StatScopes}

\* C13: after n AddUploadedFile calls on a scope of a fresh store, and no
\* IncrementUploads on it, GetStats of the scope returns the counter n, a
\* last-upload time that is not the zero time when n >= 1, and the names of the
\* last min(n, 5) calls, the last call first.
C13_GetStatsAfterAdds ==
    (statsRet.op = "GetStats" /\ incs[statsRet.groupID] = 0) =>
        LET h == adds[statsRet.groupID]
        IN  /\ statsRet.count = Len(h)
            /\ Len(h) >= 1 => statsRet.last # ZeroStats.LastUpload
            /\ NamesOf(statsRet.files) = LastNamesReversed(h)

\* GetStats has returned for a scope that was given six files or more
C13_Witness ==
    /\ statsRet.op = "GetStats"
    /\ incs[statsRet.groupID] = 0
    /\ Len(adds[statsRet.groupID]) > RecentCap
    /\ Len(statsRet.files) = RecentCap

\* C14: every scope's RecentFiles holds at most 5 entries, and so does every
\* list GetGlobalStats returns or can return.
C14_RecentFilesCapped ==
    /\ \A s \in DOMAIN stats : Len(stats[s].RecentFiles) <= RecentCap
    /\ \A r \in GetGlobalStats(stats) : Len(r[3]) <= RecentCap
    /\ statsRet.op = "GetGlobalStats" => Len(statsRet.files) <= RecentCap

\* a scope was given more than five files and GetGlobalStats has returned a
\* full list
C14_Witness ==
    /\ \E s \in StatScopes : Len(adds[s]) > RecentCap
    /\ statsRet.op = "GetGlobalStats"
    /\ Len(statsRet.files) = RecentCap

Recorded == {s \in StatScopes : adds[s] # <<>> \/ incs[s] > 0}

\* C17: a GetStats on a scope that was never recorded returns 0, the zero time
\* and an empty list, and makes no record: the known scopes are the same after
\* it as before, and so is everything GetGlobalStats can return.
C17_GetStatsUnknownScope ==
    [][ (statsRet'.op = "GetStats" /\ statsRet'.groupID \notin Recorded) =>
          /\ statsRet'.count = 0
          /\ statsRet'.last = ZeroStats.LastUpload
          /\ statsRet'.files = <<>>
          /\ DOMAIN stats' = DOMAIN stats
          /\ statsRet'.groupID \notin DOMAIN stats'
          /\ GetGlobalStats(stats') = GetGlobalStats(stats)
      ]_vars

\* GetStats has returned for a scope never recorded, in a store that knows
\* another scope
C17_Witness ==
    /\ statsRet.op = "GetStats"
    /\ statsRet.groupID \notin Recorded
    /\ Recorded # {}
    /\ DOMAIN stats = Recorded

\* C18: GetGlobalStats returns the sum of the counters of the scopes known at
\* the call, which is the number of mutating calls made so far, and the
\* latest of their last-upload times; on an empty store 0 and the zero time.
\* Every scope is made after construction, by its first upload.
C18_GlobalSumAndLatest ==
    statsRet.op = "GetGlobalStats" =>
        /\ statsRet.count = SumOver([s \in StatScopes |-> Counter(stats, s)], StatScopes)
        /\ statsRet.count = CallsMade
        /\ \A s \in DOMAIN stats : statsRet.last >= stats[s].LastUpload
        /\ IF DOMAIN stats = {}
           THEN statsRet.count = 0 /\ statsRet.last = ZeroStats.LastUpload
           ELSE \E s \in DOMAIN stats : statsRet.last = stats[s].LastUpload

\* GetGlobalStats has returned over two scopes whose last uploads differ
C18_Witness ==
    /\ statsRet.op = "GetGlobalStats"
    /\ DOMAIN stats = StatScopes
    /\ \E s, t \in StatScopes : stats[s].LastUpload < stats[t].LastUpload
    /\ statsRet.count >= 3

\* C19: the list GetGlobalStats returns holds the min(total, 5) most recent
\* uploads of the whole store, newest first: its timestamps do not increase,
\* its entries are distinct uploads the store was given, and no upload that is
\* left out is newer than one that is in it.
C19_GlobalRecentFiles ==
    statsRet.op = "GetGlobalStats" =>
        LET fl == statsRet.files
            total == Cardinality(AllUploads)
        IN  /\ Len(fl) = IF total < RecentCap THEN total ELSE RecentCap
            /\ \A k \in 1 .. Len(fl) - 1 : ~ After(fl[k + 1].Timestamp, fl[k].Timestamp)
            /\ \A k \in 1 .. Len(fl) : fl[k] \in AllUploads
            /\ \A j, k \in 1 .. Len(fl) : j # k => fl[j] # fl[k]
            /\ \A u \in AllUploads :
                  (\A k \in 1 .. Len(fl) : fl[k] # u) =>
                     \A k \in 1 .. Len(fl) : ~ After(u.Timestamp, fl[k].Timestamp)

\* GetGlobalStats has returned files of two scopes, one of which was given
\* more than it retains
C19_Witness ==
    /\ statsRet.op = "GetGlobalStats"
    /\ \E s, t \in StatScopes :
          /\ s # t
          /\ Len(adds[s]) > RecentCap
          /\ Len(adds[t]) >= 1
          /\ \E k \in 1 .. Len(statsRet.files) : statsRet.files[k] = adds[t][1]
          /\ \E k \in 1 .. Len(statsRet.files) : statsRet.files[k] = adds[s][Len(adds[s])]

-----------------------------------------------------------------------------
\* every call on the lock-level store has returned
AllReturned == \A c \in StoreClients : gpc[c] = "idle"

\* C15: no lost updates. Once all the AddUploadedFile calls the goroutines
\* made, in any interleaving of their steps, have returned, each scope's
\* counter is the number of calls made on it; N goroutines with M calls each
\* on one scope leave its counter at N*M.
C15_NoLostUpdates ==
    AllReturned =>
        /\ \A s \in StatScopes : Counter(stats, s) = Len(adds[s])
        /\ SumOver([s \in StatScopes |-> Counter(stats, s)], StatScopes) = GcCallsMade
        /\ \A s \in StatScopes :
              (\A c \in StoreClients : gCalls[c] = MaxPerClient) /\ Len(adds[s]) = GcCallsMade
                 => Counter(stats, s) = Cardinality(StoreClients) * MaxPerClient

\* both goroutines have made all their calls on the scope g1, and all returned
C15_Witness ==
    /\ AllReturned
    /\ \A c \in StoreClients : gCalls[c] = MaxPerClient
    /\ Len(adds["g1"]) = Cardinality(StoreClients) * MaxPerClient
    /\ stats["g1"].TotalUploads = Cardinality(StoreClients) * MaxPerClient

\* C20 as stated: an AddUploadedFile holds GroupCache.mu only while it finds or
\* makes the record of its scope and no longer holds it while it changes the
\* counter and the list; so while one is changing scope A, an AddUploadedFile
\* or a GetStats of another scope waiting for GroupCache.mu can take it.
C20_StoreLockReleasedBeforeMutation ==
    \A c \in StoreClients :
        gpc[c] \in Mutating =>
            /\ cmuW # c
            /\ \A d \in StoreClients :
                  (d # c /\ gArg[d].groupID # gArg[c].groupID) =>
                     /\ gpc[d] = "a_lock" => ENABLED GcAddLock(d)
                     /\ gpc[d] = "g_rlock" => ENABLED GcGetRLock(d)

-----------------------------------------------------------------------------
\* the fields of a scope's record as the completed AddUploadedFile calls on
\* it have left them
Settled(s) ==
    LET h == adds[s]
    IN  [count |-> Len(h),
         last  |-> IF h = <<>> THEN ZeroStats.LastUpload ELSE h[Len(h)].Timestamp,
         files |-> LastNamesReversed(h)]

\* C21: GetStats and GetGlobalStats never see a scope half updated. Whatever
\* fields a read has fetched of a scope's record, they are the ones the
\* completed AddUploadedFile calls on that scope have left: the counter is
\* their number, the time is the last one's, and the list holds the names of
\* the last five, never a counter that is ahead of the list.
C21_NoPartialRead ==
    \A c \in StoreClients : \A s \in DOMAIN gRead[c] :
        LET r == gRead[c][s]
        IN  /\ "count" \in DOMAIN r => r.count = Settled(s).count
            /\ "last" \in DOMAIN r => r.last = Settled(s).last
            /\ "files" \in DOMAIN r =>
                  /\ NamesOf(r.files) = Settled(s).files
                  /\ Len(r.files) = IF r.count < RecentCap THEN r.count ELSE RecentCap

\* a GetGlobalStats has fetched the records of both scopes while a GetStats
\* of the other goroutine is in the middle of reading a record
C21_Witness ==
    /\ \E c \in StoreClients :
          /\ gpc[c] = "gg_srunlock"
          /\ DOMAIN gRead[c] = StatScopes
          /\ \A s \in StatScopes : gRead[c][s].count >= 1
    /\ \E c \in StoreClients : gpc[c] = "g_files"

-----------------------------------------------------------------------------
\* the goroutine holds no mutex of the MessageCache or of the GroupCache
HoldsNoLock(w) ==
    /\ mmuW # w
    /\ w \notin mmuR
    /\ cmuW # w
    /\ w \notin cmuR
    /\ \A s \in StatScopes : smuW[s] # w /\ w \notin smuR[s]

\* C22: a goroutine of the dispatcher that waits for the folder creation, the
\* content fetch or the upload holds no lock of either cache. The folder is
\* asked for before any cache call; the fetch and the upload come after
\* IsProcessed has returned false and before MarkProcessed and
\* AddUploadedFile are called for the event.
C22_NoLockWhileWaiting ==
    \A w \in Workers :
        pc[w] \in Waiting =>
            /\ HoldsNoLock(w)
            /\ pc[w] = "w_folder" => ret[w] = "none"
            /\ pc[w] \in {"w_fetch", "w_upload"} => (ret[w] = "checked" /\ ~ dup[w])

\* one goroutine waits for the upload while the other is inside MarkProcessed
C22_Witness ==
    \E w, v \in Workers :
        /\ pc[w] = "w_upload"
        /\ pc[v] = "insert"
        /\ mmuW = v

-----------------------------------------------------------------------------
\* neither cache changes and neither collaborator is called in the step
CachesAndDriveUntouched ==
    /\ processed' = processed
    /\ stats' = stats
    /\ fetchCalls' = fetchCalls
    /\ uploadCalls' = uploadCalls
    /\ uploadedTo' = uploadedTo

\* C23: handleFileMessage with a message that is no image, video, audio or
\* file returns an error, calls neither the content API nor Drive and leaves
\* the MessageCache and the GroupCache as they were; the dispatcher passes
\* over such an event with both caches unchanged; the identifier of such a
\* message is never marked, uploaded or tracked.
C23_UnsupportedKind ==
    [][ /\ \A w \in Workers :
              /\ (pc[w] = "check" /\ ev[w].kind \notin FileKinds /\ pc'[w] # "check")
                    => (ret'[w] = "err" /\ pc'[w] = "loop" /\ CachesAndDriveUntouched)
              /\ (pc[w] = "loop" /\ batch[w] # << >> /\ batch'[w] # batch[w]
                    /\ Head(batch[w]).kind \notin FileKinds)
                    => (pc'[w] = "loop" /\ CachesAndDriveUntouched)
        /\ \A e \in OtherEvents :
              /\ e.id \notin DOMAIN processed'
              /\ uploadCalls'[e.id] = 0
              /\ recorded'[e.id] = 0 ]_vars

\* handleFileMessage has returned the error for a location message while
\* both caches hold the traces of an earlier upload
C23_Witness ==
    \E w \in Workers :
        /\ ev[w].kind \notin FileKinds
        /\ ret[w] = "err"
        /\ failures[ev[w].id] = 1
        /\ DOMAIN processed # {}
        /\ DOMAIN stats # {}

-----------------------------------------------------------------------------
\* the events an upload of which belongs under the scope s
EventsUnder(s) ==
    {e.id : e \in {x \in Events : (x.source = "group" /\ x.groupId = s)
                                      \/ (x.source # "group" /\ s = "direct")}}

\* C24: an upload is tracked under the sender's group identifier when the
\* event comes from a group and under "direct" when it comes from a user or a
\* room: each scope's counter is the number of uploads tracked for the events
\* that belong under it, so two groups never share a scope, and no other
\* scope exists.
C24_ScopeOfUpload ==
    /\ DOMAIN stats \subseteq GroupIds \cup {"direct"}
    /\ \A s \in GroupIds \cup {"direct"} :
          Counter(stats, s) = SumOver(recorded, EventsUnder(s))

\* an upload from a group and an upload from a room have both been tracked
C24_Witness ==
    /\ recorded["m1"] >= 1
    /\ recorded["m4"] >= 1
    /\ Counter(stats, "g1") >= 1
    /\ Counter(stats, "direct") >= 1

-----------------------------------------------------------------------------
\* the one reply to /stats that is held in cmd
StatsReply == cmd.replies[1]

C26_TextLeavesCaches ==
    [][ cmd'.via # "none" =>
           /\ processed' = processed
           /\ stats' = stats
           /\ DOMAIN stats' = DOMAIN stats ]_vars

\* /stats of a group without a record has been answered through the
\* callback handler while both caches hold entries
C26_Witness ==
    /\ cmd.via = "callbackHandler"
    /\ cmd.text = StatsText
    /\ cmd.groupID = "g2"
    /\ Len(cmd.replies) = 1
    /\ "g2" \notin DOMAIN stats
    /\ DOMAIN stats # {}
    /\ DOMAIN processed # {}

\* the number of replies the command text calls for
RepliesFor(text) ==
    IF text \in {HelpText, StatsText, UploadText} THEN 1
    ELSE IF text # << >> /\ text[1] = "/" THEN 1
    ELSE 0

\* the reply is the one the text calls for
RightReply(text, reply) ==
    CASE text = HelpText -> reply.kind = "help"
      [] text = StatsText -> reply.kind = "stats"
      [] text = UploadText -> reply.kind = "upload"
      [] OTHER -> reply.kind = "unknown"

\* C27 as stated: handleCommand sends exactly one reply for /help, /stats and
\* /upload, exactly one "Unknown command" reply for any other text that starts
\* with "/", and none for a text that does not.
C27_ReplyPerCommand ==
    cmd.via = "handleCommand" =>
        /\ Len(cmd.replies) = RepliesFor(cmd.text)
        /\ \A k \in 1 .. Len(cmd.replies) : RightReply(cmd.text, cmd.replies[k])

\* C27: called with a bot and a reply token that is not empty, handleCommand
\* sends exactly one reply for /help, /stats and /upload, exactly one
\* "Unknown command" reply for any other text that starts with "/", and none
\* for a text that does not; without a bot or with the empty reply token it
\* sends nothing.
C27_ReplyPerCommandWithToken ==
    cmd.via = "handleCommand" =>
        IF cmd.bot /\ cmd.replyToken # ""
        THEN /\ Len(cmd.replies) = RepliesFor(cmd.text)
             /\ \A k \in 1 .. Len(cmd.replies) : RightReply(cmd.text, cmd.replies[k])
        ELSE cmd.replies = << >>

\* an unknown command has been answered
C27_Witness ==
    /\ cmd.via = "handleCommand"
    /\ cmd.text = <<"/", "x">>
    /\ cmd.bot
    /\ cmd.replyToken # ""
    /\ Len(cmd.replies) = 1
    /\ cmd.replies[1].kind = "unknown"

-----------------------------------------------------------------------------
\* C28: the upload of a file event goes to the folder callbackHandler chose
\* for it: the folder getOrCreateGroupFolder returned for the group when the
\* event comes from a group, the configured root folder otherwise.
C28_UploadToChosenFolder ==
    [][ \A w \in Workers :
           (/\ pc[w] = "handle"
            /\ pc'[w] # "handle"
            /\ uploadCalls'[ev[w].id] = uploadCalls[ev[w].id] + 1)
           => uploadedTo'[ev[w].id] = uploadedTo[ev[w].id] \cup {folderID[w]} ]_vars

-----------------------------------------------------------------------------
\* C29: the time stored for an identifier is the time it was first marked: a
\* MarkProcessed of an identifier that is in the cache leaves the stored time
\* of that identifier as it was.
C29_FirstSeenKept ==
    [][ (IsMarkCall /\ lastOp'.id \in DOMAIN processed) =>
            /\ lastOp'.id \in DOMAIN processed'
            /\ processed'[lastOp'.id] = processed[lastOp'.id] ]_vars

-----------------------------------------------------------------------------
\* C30: every scope's counter is a non-negative integer that no step
\* decreases, and no step removes a scope's record from the store.
C30_CounterMonotonic ==
    [][ /\ \A s \in DOMAIN stats :
              /\ s \in DOMAIN stats'
              /\ stats'[s].TotalUploads >= stats[s].TotalUploads
        /\ \A s \in DOMAIN stats' : stats'[s].TotalUploads \in Nat ]_vars

\* one scope has counted more uploads than its list retains, next to another
\* scope's record
C30_Witness ==
    /\ DOMAIN stats = StatScopes
    /\ \E s \in StatScopes :
          /\ stats[s].TotalUploads > RecentCap
          /\ Len(stats[s].RecentFiles) = RecentCap

-----------------------------------------------------------------------------
\* the goroutine takes a file event of a group from its batch in this step
TakesGroupFile(w) ==
    /\ pc[w] = "loop"
    /\ batch[w] # << >>
    /\ batch'[w] # batch[w]
    /\ Head(batch[w]).kind \in FileKinds
    /\ Head(batch[w]).source = "group"

\* C31: getOrCreateGroupFolder returns the folder Drive created when the
\* creation succeeds and the parent folder when it fails, and in both cases
\* the file event goes on to handleFileMessage.
C31_FolderOrParent ==
    [][ \A w \in Workers :
           TakesGroupFile(w) =>
              /\ pc'[w] = "check"
              /\ ev'[w] = Head(batch[w])
              /\ IF folderErr'[w]
                 THEN folderID'[w] = RootFolder
                 ELSE folderID'[w] = "LINE-Group-" \o Head(batch[w]).groupId ]_vars

\* Drive refused the folder of a group's event, and the event was uploaded
\* and marked all the same
C31_Witness ==
    \E w \in Workers :
        /\ folderErr[w]
        /\ ev[w].source = "group"
        /\ pc[w] = "record"
        /\ ~ dup[w]
        /\ okUploads[ev[w].id] >= 1

\* C32: over any sequence of file events of one group, duplicate deliveries
\* included, Drive gets at most one folder-creation request for the group.
C32_OneFolderRequest ==
    \A g \in GroupIds : folderCalls[g] <= 1

-----------------------------------------------------------------------------
(* Properties of one batch (BatchSpec, FairBatchSpec) *)

\* C33: an event of a batch whose handling fails does not stop the batch. The
\* failing step leaves the rest of the batch in place and returns to the loop;
\* an event leaves the batch only by being dispatched, in order; the next
\* event can always be dispatched; and the goroutine ends only when the batch
\* is empty.
C33_FailureKeepsBatch ==
    [][ \A w \in Workers :
           /\ (pc[w] \in {"check", "handle"} /\ failures' # failures)
                 => (pc'[w] = "loop" /\ batch'[w] = batch[w])
           /\ (pc[w] # "idle" /\ batch'[w] # batch[w])
                 => (batch'[w] = Tail(batch[w]) /\ ev'[w] = Head(batch[w]))
           /\ (pc[w] = "loop" /\ batch[w] # << >>)
                 => ENABLED (\E created \in BOOLEAN : Dispatch(w, created))
           /\ (pc[w] # "idle" /\ pc'[w] = "idle") => batch[w] = << >> ]_vars

\* the upload of m1 failed, and the next event of the batch, m2, was uploaded,
\* marked and tracked
C33_Witness ==
    \E w \in Workers :
        /\ uploadCalls["m1"] = 1
        /\ okUploads["m1"] = 0
        /\ failures["m1"] = 1
        /\ ev[w].id = "m2"
        /\ pc[w] = "loop"
        /\ okUploads["m2"] = 1
        /\ "m2" \in DOMAIN processed
        /\ recorded["m2"] = 1
        /\ Counter(stats, "direct") = 1

\* the entry of m was dropped by the sweep
Swept(m) == m \in everMarked /\ m \notin DOMAIN processed

\* C34: the events of a batch are handled one after the other by one
\* goroutine: once an upload of an identifier has succeeded, no later event of
\* the batch with that identifier causes an upload call, as long as the
\* identifier's entry has not been swept.
C34_SecondInBatchSkipped ==
    [][ \A m \in MsgIds :
           (okUploads[m] >= 1 /\ ~ Swept(m)) => uploadCalls'[m] = uploadCalls[m] ]_vars

\* the batch held m1 twice: the first was uploaded, the second skipped
C34_Witness ==
    /\ okUploads["m1"] = 1
    /\ uploadCalls["m1"] = 1
    /\ skips["m1"] = 1
    /\ accepted = 2

\* C35: an upload is tracked only for an identifier that is marked, and every
\* upload that succeeded (and every delivery skipped as a duplicate) is
\* tracked in the end: the state in which the identifier is marked and the
\* store does not count it yet does not last.
C35_MarkThenTrack ==
    /\ [][ \A m \in MsgIds : recorded'[m] > recorded[m] => m \in DOMAIN processed ]_vars
    /\ \A m \in MsgIds :
          (okUploads[m] + skips[m] > recorded[m]) ~> (okUploads[m] + skips[m] = recorded[m])

\* the identifier is marked and the store does not count its upload yet
C35_Witness ==
    \E w \in Workers :
        /\ pc[w] = "record"
        /\ ~ dup[w]
        /\ ev[w].id \in DOMAIN processed
        /\ okUploads[ev[w].id] = 1
        /\ Counter(stats, ScopeOf(ev[w].id)) = 0

-----------------------------------------------------------------------------
\* C36: a delivery of an identifier whose entry has been swept is treated as
\* new: the idempotency check lets it through to handleFile, a successful
\* upload marks the identifier again, and the upload is counted again under
\* its scope.
C36_SweptIsNew ==
    [][ \A w \in Workers :
           /\ (pc[w] = "check" /\ pc'[w] # "check" /\ Swept(ev[w].id))
                 => (pc'[w] = "handle" /\ ~ dup'[w] /\ skips' = skips)
           /\ (pc[w] = "mark" /\ pc'[w] # "mark")
                 => (ev[w].id \in DOMAIN processed' /\ processed'[ev[w].id] = now)
           /\ (pc[w] = "record" /\ pc'[w] # "record")
                 => Counter(stats', ScopeOf(ev[w].id))
                       = Counter(stats, ScopeOf(ev[w].id)) + 1 ]_vars

\* m1 was uploaded and marked, swept more than a day later by the mark of
\* m2, delivered again, uploaded again, marked again and counted twice
C36_Witness ==
    /\ uploadCalls["m1"] = 2
    /\ okUploads["m1"] = 2
    /\ skips["m1"] = 0
    /\ "m1" \in DOMAIN processed
    /\ processed["m1"] > Retention
    /\ Counter(stats, "g1") = 2

-----------------------------------------------------------------------------
\* positions of GetGlobalStats between c.mu.RLock() and its return
InsideGlobal == {"gg_next", "gg_srlock", "gg_read", "gg_last", "gg_files",
                 "gg_srunlock", "gg_runlock"}

\* the records a GetGlobalStats has read completely, as a store
FetchedStore(c) ==
    [s \in {x \in DOMAIN gRead[c] : DOMAIN gRead[c][x] = {"count", "last", "files"}} |->
        [TotalUploads |-> gRead[c][s].count,
         LastUpload   |-> gRead[c][s].last,
         RecentFiles  |-> gRead[c][s].files]]

\* C38: GetGlobalStats returns the fold over the state of all scopes at one
\* instant. From its c.mu.RLock() to its return every field it has fetched is
\* the one the store holds now, of exactly the scopes the store holds now, so
\* that at the return the records it has read, which it sums, compares and
\* sorts, are the store as it is at that instant, every counter being the
\* number of completed AddUploadedFile calls on its scope.
C38_GlobalSnapshot ==
    \A c \in StoreClients :
        gpc[c] \in InsideGlobal =>
            /\ DOMAIN gRead[c] \subseteq DOMAIN stats
            /\ gTodo[c] \subseteq DOMAIN stats
            /\ \A s \in DOMAIN gRead[c] :
                  LET r == gRead[c][s]
                  IN  /\ "count" \in DOMAIN r => r.count = stats[s].TotalUploads
                      /\ "last" \in DOMAIN r => r.last = stats[s].LastUpload
                      /\ "files" \in DOMAIN r => r.files = stats[s].RecentFiles
            /\ gpc[c] = "gg_runlock" =>
                  /\ FetchedStore(c) = stats
                  /\ \A s \in DOMAIN stats : stats[s].TotalUploads = Settled(s).count

\* a GetGlobalStats is about to return the fold over two scopes while an
\* AddUploadedFile of the other goroutine waits for the store's lock
C38_Witness ==
    \E c, d \in StoreClients :
        /\ gpc[c] = "gg_runlock"
        /\ DOMAIN gRead[c] = StatScopes
        /\ \A s \in StatScopes : gRead[c][s].count >= 1
        /\ gpc[d] = "a_lock"

-----------------------------------------------------------------------------
(* Properties of the locks of both caches (LockSpec) *)

\* the goroutine holds GroupCache.mu; it holds the GroupStats.mu of a record
HoldsStore(c) == cmuW = c \/ c \in cmuR
HoldsScope(c) == \E s \in StatScopes : smuW[s] = c \/ c \in smuR[s]

\* the goroutines that hold the lock the goroutine c is about to take
StoreHolders(c) ==
    CASE gpc[c] \in {"a_lock", "i_lock"} -> (IF cmuW = 0 THEN {} ELSE {cmuW}) \cup cmuR
      [] gpc[c] \in {"g_rlock", "gg_rlock"} -> IF cmuW = 0 THEN {} ELSE {cmuW}
      [] gpc[c] \in {"a_slock", "i_slock"} ->
           (IF smuW[gArg[c].groupID] = 0 THEN {} ELSE {smuW[gArg[c].groupID]})
              \cup smuR[gArg[c].groupID]
      [] gpc[c] \in {"g_srlock", "gg_srlock"} ->
           IF smuW[gArg[c].groupID] = 0 THEN {} ELSE {smuW[gArg[c].groupID]}
      [] OTHER -> {}

CacheHolders(c) ==
    CASE mpc[c] = "lock" -> (IF mmuW = 0 THEN {} ELSE {mmuW}) \cup mmuR
      [] mpc[c] = "rlock" -> IF mmuW = 0 THEN {} ELSE {mmuW}
      [] OTHER -> {}

\* C37: no interleaving of the methods of the two caches deadlocks. A
\* goroutine holds a record's lock only while it holds the store's lock, so
\* the store's lock is always taken first; a goroutine that holds the store's
\* lock can always take its next step, the taking of a record's lock
\* included; a goroutine that cannot take its next step waits for a lock
\* whose every holder can take its next step; and a goroutine that is in no
\* method holds no lock.
C37_NoDeadlock ==
    /\ \A c \in StoreClients :
          /\ HoldsScope(c) => HoldsStore(c)
          /\ gpc[c] = "idle" => (~ HoldsStore(c) /\ ~ HoldsScope(c))
          /\ HoldsStore(c) => ENABLED GcStep(c)
          /\ (gpc[c] # "idle" /\ ~ ENABLED GcStep(c)) =>
                /\ StoreHolders(c) # {}
                /\ \A d \in StoreHolders(c) : d # c /\ ENABLED GcStep(d)
    /\ (cmuW # 0 => cmuR = {}) /\ (\A s \in StatScopes : smuW[s] # 0 => smuR[s] = {})
    /\ \A c \in Clients :
          /\ mpc[c] = "idle" => (mmuW # c /\ c \notin mmuR)
          /\ (mmuW = c \/ c \in mmuR) => ENABLED McStep(c)
          /\ (mpc[c] # "idle" /\ ~ ENABLED McStep(c)) =>
                /\ CacheHolders(c) # {}
                /\ \A d \in CacheHolders(c) : d # c /\ ENABLED McStep(d)
    /\ mmuW # 0 => mmuR = {}

\* an IncrementUploads waits for the store's lock while a GetGlobalStats
\* holds it together with a record's lock
C37_Witness ==
    \E c, d \in StoreClients :
        /\ gpc[c] = "i_lock"
        /\ ~ ENABLED GcStep(c)
        /\ gpc[d] = "gg_read"
        /\ d \in cmuR
        /\ d \in smuR[gArg[d].groupID]
        /\ stats[gArg[d].groupID].TotalUploads >= 1

====
